---- MODULE Spec2Model ----
(***************************************************************************)
(* lilith-browser: the ingestion / embedding-backfill pipeline             *)
(* (src/src/ingest/sync.py) and the hybrid search engines with their query *)
(* front end (src/src/mcp_server/hybrid_search.py, tools.py, server.py).   *)
(*                                                                         *)
(* Conventions.  Python None / SQL NULL is None for text values, NoTime    *)
(* for timestamps and NoEmbedding for the vector column.  A vector is      *)
(* abstracted to its number of components; a value the embedding service   *)
(* returns in place of a vector that is not a list is NotAList.  The two   *)
(* tables are sequences whose index is the store-assigned id.              *)
(***************************************************************************)
EXTENDS Integers, Sequences, FiniteSets, TLC

VARIABLES
    only,        \* which kind the ingest invocations of this behaviour read
    history,     \* table "history": Seq of rows, id = index
    bookmarks,   \* table "bookmarks": Seq of rows, id = index
    clock,       \* the instant the next call reads as now
    pc,          \* where the running command is: "idle"; "history" and
                 \* "bookmarks" in run_embedding_backfill;
                 \* "search_history", "search_bookmarks", "merge" and
                 \* "done" in a query front end; "cli_write" in cmd_ingest
    batch_size,  \* run_embedding_backfill's batch_size argument
    h_total,     \* run_embedding_backfill's h_total
    b_total,     \* run_embedding_backfill's b_total
    last,        \* the last completed call and what it returned
    req,         \* the request a query front end is serving
    eng,         \* per kind: what the engine's search() did and returned
    out,         \* what the query front end returned
    tx           \* per process: the open transaction of a concurrent
                 \* cmd_ingest (its place, what it read and what it wrote)

ingestVars == <<only, history, bookmarks, clock, pc, batch_size,
                h_total, b_total, last>>
searchVars == <<req, eng, out>>

----------------------------------------------------------------------------
(* Bounds of the model *)

MaxClock == 4
MaxBatch == 2
MaxBatchSize == 2
MaxTopK == 2

----------------------------------------------------------------------------
(* Program constants and value conventions *)

EMBEDDING_DIM == 768
BROWSER == "vivaldi"

None == "None"
NoTime == 0
NoEmbedding == [null |-> TRUE]
NotAList == [notalist |-> TRUE]

Vec(n) == [len |-> n]
IsList(v) == DOMAIN v = {"len"}
IsNull(v) == v = NoEmbedding

\* Python's `x or None` on an optional text value
OrNone(x) == IF x = "" \/ x = None THEN None ELSE x

\* Postgres COALESCE(x, '')
Coalesce(x) == IF x = None THEN "" ELSE x

----------------------------------------------------------------------------
(* Raw records, as the source readers hand them to ingestion *)

UrlA == "http://a.com/p"
UrlX == "file:///x"
UrlB == "http://b.org/q"

\* sha256 of the url: distinct urls have distinct digests
url_digest(url) == CASE url = UrlA -> 11
                     [] url = UrlB -> 33
                     [] url = UrlX -> 22
                     [] OTHER -> 0

HistRaw ==
    { [url |-> UrlA, title |-> "A", last_visit_time |-> 1, visit_count |-> 1,
       domain |-> "a.com"],
      [url |-> UrlA, title |-> None, last_visit_time |-> 2, visit_count |-> 2,
       domain |-> "a.com"],
      [url |-> UrlX, title |-> "X", last_visit_time |-> NoTime,
       visit_count |-> 0, domain |-> ""] }

BmRaw ==
    { [url |-> UrlA, title |-> "A", folder |-> "Work", added_at |-> 1],
      [url |-> UrlA, title |-> None, folder |-> "Work", added_at |-> 2],
      [url |-> UrlA, title |-> "A", folder |-> "", added_at |-> NoTime] }

SeqsUpTo(S, n) == UNION { [1..k -> S] : k \in 1..n }

HistBatches == SeqsUpTo(HistRaw, MaxBatch)
BmBatches == SeqsUpTo(BmRaw, MaxBatch)

----------------------------------------------------------------------------
(* The store: unique indexes and the session's flush *)

\* uq_history_url_browser: (digest(url, 'sha256'), browser); NULLs are distinct
HistoryUniqueConflict(a, b) ==
    /\ url_digest(a.url) = url_digest(b.url)
    /\ a.browser = b.browser
    /\ a.browser # None

\* the bookmark index on the bare columns: a NULL folder never conflicts
BookmarkIndexWithoutCoalesce(a, b) ==
    /\ url_digest(a.url) = url_digest(b.url)
    /\ a.folder = b.folder /\ a.folder # None
    /\ a.browser = b.browser /\ a.browser # None

\* uq_bookmarks_url_folder_browser:
\* (digest(url, 'sha256'), COALESCE(folder, ''), COALESCE(browser, ''))
BookmarkUniqueConflict(a, b) ==
    /\ url_digest(a.url) = url_digest(b.url)
    /\ Coalesce(a.folder) = Coalesce(b.folder)
    /\ Coalesce(a.browser) = Coalesce(b.browser)

UniqueConflict(kind, a, b) ==
    IF kind = "history" THEN HistoryUniqueConflict(a, b)
    ELSE BookmarkUniqueConflict(a, b)

\* A session's view of one table: rows already written, objects added and
\* not yet INSERTed, and whether a statement has raised.
Db(rows) == [rows |-> rows, pending |-> <<>>, err |-> FALSE]

\* db.flush(): INSERT the pending objects in order; the store assigns the id
\* and the server-default timestamps; a unique-index violation raises.
RECURSIVE Flush(_, _, _)
Flush(kind, db, now) ==
    IF db.err \/ db.pending = <<>> THEN db
    ELSE LET p == Head(db.pending)
             clash == \E i \in DOMAIN db.rows : UniqueConflict(kind, db.rows[i], p)
             row == [p EXCEPT !.id = Len(db.rows) + 1,
                              !.created_at = now,
                              !.updated_at = now]
         IN IF clash
            THEN [db EXCEPT !.err = TRUE]
            ELSE Flush(kind,
                       [db EXCEPT !.rows = Append(db.rows, row),
                                  !.pending = Tail(db.pending)],
                       now)

\* What a SELECT sees: with autoflush the pending objects are flushed first
Visible(kind, db, now, af) == IF af THEN Flush(kind, db, now) ELSE db

----------------------------------------------------------------------------
(* Ingestion: upsert_history and upsert_bookmarks *)

\* HistoryEntry(...) as db.add receives it; id and timestamps come at flush
NewHistoryEntry(r) ==
    [id |-> 0, url |-> r.url, title |-> r.title, snippet |-> None,
     domain |-> OrNone(r.domain), last_visit_time |-> r.last_visit_time,
     visit_count |-> r.visit_count, browser |-> BROWSER,
     embedding |-> NoEmbedding, embedding_computed_at |-> NoTime,
     created_at |-> NoTime, updated_at |-> NoTime, deleted_at |-> NoTime]

\* the SELECT of upsert_history: digest(url) and browser
HistoryExisting(rows, r) ==
    { i \in DOMAIN rows : /\ url_digest(rows[i].url) = url_digest(r.url)
                          /\ rows[i].browser = BROWSER }

\* an update that adds the visits of the raw record to the stored count
UpdateAddingVisits(row, r, now) ==
    [row EXCEPT !.title = r.title,
                !.domain = OrNone(r.domain),
                !.last_visit_time = r.last_visit_time,
                !.visit_count = @ + r.visit_count,
                !.updated_at = now]

\* an update that brings a soft-deleted row back
UpdateRevivingEntry(row, r, now) ==
    [row EXCEPT !.title = r.title,
                !.domain = OrNone(r.domain),
                !.last_visit_time = r.last_visit_time,
                !.visit_count = r.visit_count,
                !.deleted_at = NoTime,
                !.updated_at = now]

\* the assignments of the `if existing:` branch
UpdateHistoryEntry(row, r, now) ==
    [row EXCEPT !.title = r.title,
                !.domain = OrNone(r.domain),
                !.last_visit_time = r.last_visit_time,
                !.visit_count = r.visit_count,
                !.updated_at = now]

RECURSIVE upsert_history_loop(_, _, _, _)
upsert_history_loop(db, rows, now, af) ==
    IF rows = <<>> \/ db.err THEN db
    ELSE LET r == Head(rows)
             v == Visible("history", db, now, af)
             hits == HistoryExisting(v.rows, r)
         IN IF v.err THEN v
            ELSE IF Cardinality(hits) > 1
            THEN [v EXCEPT !.err = TRUE]    \* scalar_one_or_none raises
            ELSE IF hits # {}
            THEN LET i == CHOOSE j \in hits : TRUE
                 IN upsert_history_loop(
                        [v EXCEPT !.rows[i] = UpdateHistoryEntry(@, r, now)],
                        Tail(rows), now, af)
            ELSE upsert_history_loop(
                     [v EXCEPT !.pending = Append(@, NewHistoryEntry(r))],
                     Tail(rows), now, af)

\* the loop, then db.flush()
upsert_history(table, rows, now, af) ==
    Flush("history", upsert_history_loop(Db(table), rows, now, af), now)

NewBookmark(r) ==
    [id |-> 0, url |-> r.url, title |-> r.title, snippet |-> None,
     folder |-> OrNone(r.folder), added_at |-> r.added_at, browser |-> BROWSER,
     embedding |-> NoEmbedding, embedding_computed_at |-> NoTime,
     created_at |-> NoTime, updated_at |-> NoTime, deleted_at |-> NoTime]

\* the SELECT of upsert_bookmarks: digest(url), browser, and folder
\* (IS NULL for a missing folder, equality otherwise)
BookmarkExisting(rows, r) ==
    { i \in DOMAIN rows : /\ url_digest(rows[i].url) = url_digest(r.url)
                          /\ rows[i].browser = BROWSER
                          /\ rows[i].folder = OrNone(r.folder) }

\* an update that writes the row as if it were new: created_at is set again
\* and the embedding is dropped
UpdateBookmarkAsNew(row, r, now) ==
    [row EXCEPT !.title = r.title,
                !.added_at = r.added_at,
                !.created_at = now,
                !.embedding = NoEmbedding,
                !.embedding_computed_at = NoTime,
                !.updated_at = now]

\* the assignments of the `if existing:` branch
UpdateBookmark(row, r, now) ==
    [row EXCEPT !.title = r.title,
                !.added_at = r.added_at,
                !.updated_at = now]

RECURSIVE upsert_bookmarks_loop(_, _, _, _)
upsert_bookmarks_loop(db, rows, now, af) ==
    IF rows = <<>> \/ db.err THEN db
    ELSE LET r == Head(rows)
             v == Visible("bookmarks", db, now, af)
             hits == BookmarkExisting(v.rows, r)
         IN IF v.err THEN v
            ELSE IF Cardinality(hits) > 1
            THEN [v EXCEPT !.err = TRUE]
            ELSE IF hits # {}
            THEN LET i == CHOOSE j \in hits : TRUE
                 IN upsert_bookmarks_loop(
                        [v EXCEPT !.rows[i] = UpdateBookmark(@, r, now)],
                        Tail(rows), now, af)
            ELSE upsert_bookmarks_loop(
                     [v EXCEPT !.pending = Append(@, NewBookmark(r))],
                     Tail(rows), now, af)

upsert_bookmarks(table, rows, now, af) ==
    Flush("bookmarks", upsert_bookmarks_loop(Db(table), rows, now, af), now)

----------------------------------------------------------------------------
(* The embedding service and one backfill batch *)

Raises == [raises |-> TRUE, islist |-> FALSE, vectors |-> <<>>]
NonList == [raises |-> FALSE, islist |-> FALSE, vectors |-> <<>>]
ListOf(vs) == [raises |-> FALSE, islist |-> TRUE, vectors |-> vs]

VecValues == { Vec(EMBEDDING_DIM), Vec(EMBEDDING_DIM - 1), NotAList }

\* the answers of encode_sync to a request of k texts: an exception, a value
\* that is no list, k values of any kind, or one vector too few or too many
Responses(k) ==
    {Raises, NonList}
        \cup { ListOf(vs) : vs \in [1..k -> VecValues] }
        \cup { ListOf([j \in 1..m |-> Vec(EMBEDDING_DIM)]) : m \in {k - 1, k + 1} }

Min(a, b) == IF a < b THEN a ELSE b

\* a SELECT that leaves out `embedding IS NULL`
SelectAnyLive(row) ==
    /\ row.browser = BROWSER
    /\ row.deleted_at = NoTime

\* the WHERE clause of a batch's SELECT
Unembedded(row) ==
    /\ row.browser = BROWSER
    /\ IsNull(row.embedding)
    /\ row.deleted_at = NoTime

\* SELECT ... LIMIT batch_size has no ORDER BY: any batch_size of the
\* matching rows, in any order
SelectBatch(table, bs) ==
    LET ids == { i \in DOMAIN table : Unembedded(table[i]) }
        k == Min(bs, Cardinality(ids))
    IN { s \in [1..k -> ids] : \A a, b \in 1..k : a # b => s[a] # s[b] }

\* a test that takes any list as a vector
AcceptAnyList(vec) == IsList(vec)

\* the test that accepts one returned vector
AcceptVector(vec) == IsList(vec) /\ vec.len = EMBEDDING_DIM

\* a test that does not compare the number of vectors with the number of texts
AcceptAnyListResponse(resp, entries) ==
    /\ ~resp.raises
    /\ resp.islist

\* the test that accepts the response as a whole
AcceptResponse(resp, entries) ==
    /\ ~resp.raises
    /\ resp.islist
    /\ Len(resp.vectors) = Len(entries)

\* a loop that stops at the first vector it does not accept
WrittenUntilRejected(entries, vectors) ==
    { entries[j] : j \in { x \in 1..Min(Len(entries), Len(vectors)) :
                             \A y \in 1..x : AcceptVector(vectors[y]) } }

\* for e, vec in zip(entries, vectors): the ids written
Written(entries, vectors) ==
    { entries[j] : j \in { x \in 1..Min(Len(entries), Len(vectors)) :
                             AcceptVector(vectors[x]) } }

VectorFor(entries, vectors, id) ==
    vectors[CHOOSE j \in 1..Min(Len(entries), Len(vectors)) : entries[j] = id]

\* a batch function that writes its batch and returns 0, so that the loop of
\* run_embedding_backfill stops after one batch
embed_batch_once(table, entries, resp, now) ==
    IF entries = <<>> \/ ~AcceptResponse(resp, entries)
    THEN [rows |-> table, n |-> 0]
    ELSE [rows |-> [i \in DOMAIN table |->
                      IF i \in Written(entries, resp.vectors)
                      THEN [table[i] EXCEPT
                              !.embedding = VectorFor(entries, resp.vectors, i),
                              !.embedding_computed_at = now,
                              !.updated_at = now]
                      ELSE table[i]],
          n |-> 0]

\* a batch function that stamps every selected record with
\* embedding_computed_at, whether or not its vector was accepted
embed_batch_stamping_all(table, entries, resp, now) ==
    IF entries = <<>> \/ ~AcceptResponse(resp, entries)
    THEN [rows |-> table, n |-> 0]
    ELSE [rows |-> [i \in DOMAIN table |->
                      IF i \in Written(entries, resp.vectors)
                      THEN [table[i] EXCEPT
                              !.embedding = VectorFor(entries, resp.vectors, i),
                              !.embedding_computed_at = now,
                              !.updated_at = now]
                      ELSE IF \E j \in DOMAIN entries : entries[j] = i
                      THEN [table[i] EXCEPT !.embedding_computed_at = now,
                                            !.updated_at = now]
                      ELSE table[i]],
          n |-> Len(entries)]

\* embed_history_batch / embed_bookmarks_batch after the SELECT:
\* the table as written and the value returned
embed_batch(table, entries, resp, now) ==
    IF entries = <<>> THEN [rows |-> table, n |-> 0]
    ELSE IF ~AcceptResponse(resp, entries) THEN [rows |-> table, n |-> 0]
    ELSE LET w == Written(entries, resp.vectors)
         IN [rows |-> [i \in DOMAIN table |->
                          IF i \in w
                          THEN [table[i] EXCEPT
                                  !.embedding = VectorFor(entries, resp.vectors, i),
                                  !.embedding_computed_at = now,
                                  !.updated_at = now]
                          ELSE table[i]],
             n |-> Len(entries)]

\* what the batch function saw of the service
RespClass(entries, resp) ==
    IF entries = <<>> THEN "nocall"
    ELSE IF resp.raises THEN "raise"
    ELSE IF ~resp.islist THEN "nonlist"
    ELSE IF Len(resp.vectors) # Len(entries) THEN "mismatch"
    ELSE "ok"

----------------------------------------------------------------------------
(* Actions of the ingestion / backfill pipeline *)

\* clean: the kinds whose batches, in this run of run_embedding_backfill,
\* were all answered with one vector of EMBEDDING_DIM components per text
NoCall == [op |-> "none", batch |-> <<>>, err |-> FALSE, n |-> 0,
           sel |-> <<>>, resp |-> "nocall", repeat |-> FALSE, ret |-> <<>>,
           clean |-> {"history", "bookmarks"}]

\* the service answered the batch with one good vector per text
GoodAnswer(entries, resp) ==
    \/ entries = <<>>
    \/ /\ AcceptResponse(resp, entries)
       /\ \A j \in DOMAIN resp.vectors : AcceptVector(resp.vectors[j])

\* the processes that may run cmd_ingest at the same time, and a process
\* with no transaction open
Procs == {1, 2}
NoTx == [pc |-> "idle", raw |-> <<>>, hits |-> {}, ins |-> <<>>, upd |-> <<>>,
         sel |-> <<>>]

\* no request is being served: nothing asked, no engine called, nothing returned
NoReq == [api |-> "none"]
NotCalled == [called |-> FALSE, results |-> <<>>, timing |-> {},
              methods_executed |-> <<>>, all_results |-> <<>>]
NoEng == [history |-> NotCalled, bookmarks |-> NotCalled]
NoOut == [none |-> TRUE]

\* one call of upsert_history in a session of its own; an exception rolls
\* the session back
UpsertHistory(rows, af) ==
    /\ only = "history"
    /\ pc = "idle"
    /\ clock < MaxClock
    /\ clock' = clock + 1
    /\ LET db == upsert_history(history, rows, clock, af)
       IN /\ history' = IF db.err THEN history ELSE db.rows
          /\ last' = [NoCall EXCEPT
                        !.op = "upsert_history",
                        !.batch = rows,
                        !.err = db.err,
                        !.n = IF db.err THEN 0 ELSE Len(rows),
                        !.repeat = /\ last.op = "upsert_history"
                                   /\ ~last.err
                                   /\ last.batch = rows]
    /\ UNCHANGED searchVars
    /\ UNCHANGED <<tx, only, bookmarks, pc, batch_size,
                   h_total, b_total>>

UpsertBookmarks(rows, af) ==
    /\ only = "bookmarks"
    /\ pc = "idle"
    /\ clock < MaxClock
    /\ clock' = clock + 1
    /\ LET db == upsert_bookmarks(bookmarks, rows, clock, af)
       IN /\ bookmarks' = IF db.err THEN bookmarks ELSE db.rows
          /\ last' = [NoCall EXCEPT
                        !.op = "upsert_bookmarks",
                        !.batch = rows,
                        !.err = db.err,
                        !.n = IF db.err THEN 0 ELSE Len(rows),
                        !.repeat = /\ last.op = "upsert_bookmarks"
                                   /\ ~last.err
                                   /\ last.batch = rows]
    /\ UNCHANGED searchVars
    /\ UNCHANGED <<tx, only, history, pc, batch_size,
                   h_total, b_total>>

\* one call of embed_history_batch(db, embedder, bs) on its own
EmbedHistoryBatch(bs, entries, resp) ==
    /\ pc = "idle"
    /\ LET res == embed_batch(history, entries, resp, clock)
       IN /\ res.n > 0 => clock < MaxClock
          /\ clock' = IF res.n > 0 THEN clock + 1 ELSE clock
          /\ history' = res.rows
          /\ last' = [NoCall EXCEPT
                        !.op = "embed_history_batch",
                        !.sel = entries,
                        !.resp = RespClass(entries, resp),
                        !.n = res.n]
    /\ UNCHANGED searchVars
    /\ UNCHANGED <<tx, only, bookmarks, pc, batch_size, h_total, b_total>>

\* one call of embed_bookmarks_batch(db, embedder, bs) on its own
EmbedBookmarksBatch(bs, entries, resp) ==
    /\ pc = "idle"
    /\ LET res == embed_batch(bookmarks, entries, resp, clock)
       IN /\ res.n > 0 => clock < MaxClock
          /\ clock' = IF res.n > 0 THEN clock + 1 ELSE clock
          /\ bookmarks' = res.rows
          /\ last' = [NoCall EXCEPT
                        !.op = "embed_bookmarks_batch",
                        !.sel = entries,
                        !.resp = RespClass(entries, resp),
                        !.n = res.n]
    /\ UNCHANGED searchVars
    /\ UNCHANGED <<tx, only, history, pc, batch_size, h_total, b_total>>

\* run_embedding_backfill is entered: h_total, b_total = 0, 0
StartBackfill(bs) ==
    /\ pc = "idle"
    /\ pc' = "history"
    /\ batch_size' = bs
    /\ h_total' = 0
    /\ b_total' = 0
    /\ last' = [NoCall EXCEPT !.op = "run_embedding_backfill"]
    /\ UNCHANGED searchVars
    /\ UNCHANGED <<tx, only, history, bookmarks, clock>>

\* one turn of the first `while True`: n = embed_history_batch(...);
\* h_total += n; if n == 0: break
HistoryBatch(entries, resp) ==
    /\ pc = "history"
    /\ LET res == embed_batch(history, entries, resp, clock)
       IN /\ res.n > 0 => clock < MaxClock
          /\ clock' = IF res.n > 0 THEN clock + 1 ELSE clock
          /\ history' = res.rows
          /\ h_total' = h_total + res.n
          /\ pc' = IF res.n = 0 THEN "bookmarks" ELSE "history"
          /\ last' = [NoCall EXCEPT
                        !.op = "embed_history_batch",
                        !.sel = entries,
                        !.resp = RespClass(entries, resp),
                        !.n = res.n,
                        !.clean = IF GoodAnswer(entries, resp) THEN last.clean
                                  ELSE last.clean \ {"history"}]
    /\ UNCHANGED searchVars
    /\ UNCHANGED <<tx, only, bookmarks, batch_size, b_total>>

\* one turn of the second `while True`; n == 0 returns (h_total, b_total)
\* and the frame of run_embedding_backfill is gone
BookmarksBatch(entries, resp) ==
    /\ pc = "bookmarks"
    /\ LET res == embed_batch(bookmarks, entries, resp, clock)
           done == res.n = 0
       IN /\ res.n > 0 => clock < MaxClock
          /\ clock' = IF res.n > 0 THEN clock + 1 ELSE clock
          /\ bookmarks' = res.rows
          /\ pc' = IF done THEN "idle" ELSE "bookmarks"
          /\ b_total' = IF done THEN 0 ELSE b_total + res.n
          /\ h_total' = IF done THEN 0 ELSE h_total
          /\ batch_size' = IF done THEN 1 ELSE batch_size
          /\ last' = [NoCall EXCEPT
                        !.op = "embed_bookmarks_batch",
                        !.sel = entries,
                        !.resp = RespClass(entries, resp),
                        !.n = res.n,
                        !.ret = IF done THEN <<h_total, b_total>> ELSE <<>>,
                        !.clean = IF GoodAnswer(entries, resp) THEN last.clean
                                  ELSE last.clean \ {"bookmarks"}]
    /\ UNCHANGED searchVars
    /\ UNCHANGED <<tx, only, history>>

\* deleted_at is set from outside this code (soft delete)
SoftDeleteHistory(i) ==
    /\ pc = "idle"
    /\ history[i].deleted_at = NoTime
    /\ history' = [history EXCEPT ![i].deleted_at = clock]
    /\ last' = [NoCall EXCEPT !.op = "soft_delete"]
    /\ UNCHANGED searchVars
    /\ UNCHANGED <<tx, only, bookmarks, clock, pc, batch_size,
                   h_total, b_total>>

SoftDeleteBookmark(i) ==
    /\ pc = "idle"
    /\ bookmarks[i].deleted_at = NoTime
    /\ bookmarks' = [bookmarks EXCEPT ![i].deleted_at = clock]
    /\ last' = [NoCall EXCEPT !.op = "soft_delete"]
    /\ UNCHANGED searchVars
    /\ UNCHANGED <<tx, only, history, clock, pc, batch_size,
                   h_total, b_total>>

IngestInit ==
    /\ only \in {"history", "bookmarks"}
    /\ history = <<>>
    /\ bookmarks = <<>>
    /\ clock = 1
    /\ pc = "idle"
    /\ batch_size = 1
    /\ h_total = 0
    /\ b_total = 0
    /\ last = NoCall
    /\ req = NoReq
    /\ eng = NoEng
    /\ out = NoOut
    /\ tx = [p \in Procs |-> NoTx]

\* ingestion, soft deletion and single backfill batches
IngestNext ==
    \/ \E rows \in HistBatches, af \in BOOLEAN : UpsertHistory(rows, af)
    \/ \E rows \in BmBatches, af \in BOOLEAN : UpsertBookmarks(rows, af)
    \/ \E bs \in 1..MaxBatchSize :
         \E entries \in SelectBatch(history, bs) :
           \E resp \in Responses(Len(entries)) :
             EmbedHistoryBatch(bs, entries, resp)
    \/ \E bs \in 1..MaxBatchSize :
         \E entries \in SelectBatch(bookmarks, bs) :
           \E resp \in Responses(Len(entries)) :
             EmbedBookmarksBatch(bs, entries, resp)
    \/ \E i \in DOMAIN history : SoftDeleteHistory(i)
    \/ \E i \in DOMAIN bookmarks : SoftDeleteBookmark(i)

\* ingestion, soft deletion and run_embedding_backfill
BackfillNext ==
    \/ \E rows \in HistBatches, af \in BOOLEAN : UpsertHistory(rows, af)
    \/ \E rows \in BmBatches, af \in BOOLEAN : UpsertBookmarks(rows, af)
    \/ \E i \in DOMAIN history : SoftDeleteHistory(i)
    \/ \E i \in DOMAIN bookmarks : SoftDeleteBookmark(i)
    \/ \E bs \in 1..MaxBatchSize : StartBackfill(bs)
    \/ \E entries \in SelectBatch(history, batch_size) :
         \E resp \in Responses(Len(entries)) : HistoryBatch(entries, resp)
    \/ \E entries \in SelectBatch(bookmarks, batch_size) :
         \E resp \in Responses(Len(entries)) : BookmarksBatch(entries, resp)

----------------------------------------------------------------------------
(* The hybrid search engines.  Scores are in hundredths: 1.0 is 100. *)

Methods == {"structured", "fulltext", "vector"}

MaxOf(S) == CHOOSE x \in S : \A y \in S : y <= x
Clamp(lo, x, hi) == IF x < lo THEN lo ELSE IF x > hi THEN hi ELSE x
Range(f) == { f[x] : x \in DOMAIN f }

\* s sorted by before, where before[i][j] says that s[i] precedes s[j] in
\* the order, keeping the order of s between elements that neither
\* precedes (list.sort is stable)
SortedBy(s, before) ==
    LET n == Len(s)
        pos(i) == 1 + Cardinality({ j \in 1..n :
                        \/ before[j][i]
                        \/ (~before[i][j] /\ j < i) })
    IN [k \in 1..n |-> s[CHOOSE i \in 1..n : pos(i) = k]]

\* the elements of a finite set of integers, ascending
AscendingSeq(S) ==
    LET n == Cardinality(S)
    IN [k \in 1..n |-> CHOOSE x \in S : Cardinality({ y \in S : y < x }) = k - 1]

FirstN(s, n) == SubSeq(s, 1, Min(n, Len(s)))

\* the Python slice s[:n]: a negative n leaves out the last -n elements
PySlice(s, n) == IF n >= 0 THEN FirstN(s, n) ELSE FirstN(s, Len(s) + n)

\* str.strip() of a query held as a sequence of characters
RECURSIVE Strip(_)
Strip(q) ==
    IF q = <<>> THEN q
    ELSE IF Head(q) = " " THEN Strip(Tail(q))
    ELSE IF q[Len(q)] = " " THEN Strip(SubSeq(q, 1, Len(q) - 1))
    ELSE q

\* column ILIKE '%value%' for the texts of this model; NULL matches nothing
ILike(text, value) ==
    /\ text # None
    /\ <<text, value>> \in {<<"a.com", "a.com">>, <<"b.org", "b.org">>,
                            <<"a.com", ".COM">>, <<"Work", "work">>}

\* Instants are integers; a day is InstantsPerDay consecutive instants, the
\* first 00:00:00 and the last 23:59:59.999999 (the store keeps microseconds)
InstantsPerDay == 2
FirstInstant(day) == day * InstantsPerDay
LastInstant(day) == day * InstantsPerDay + InstantsPerDay - 1

\* the bare dates and the date-times a filter value of this model can spell
Dates == [s \in {"2026-02-09", "2026-02-10", "2026-02-11"} |->
            CASE s = "2026-02-09" -> 0
              [] s = "2026-02-10" -> 1
              [] s = "2026-02-11" -> 2]
DateTimes == [s \in {"2026-02-10T00:00:00"} |-> FirstInstant(1)]

\* a bare date read as the first instant of its day, whatever end_of_day
parse_date_midnight(s, end_of_day) ==
    IF s \in DOMAIN DateTimes THEN [ok |-> TRUE, t |-> DateTimes[s]]
    ELSE IF s \in DOMAIN Dates
    THEN [ok |-> TRUE, t |-> FirstInstant(Dates[s])]
    ELSE [ok |-> FALSE, t |-> NoTime]

\* _parse_date_bound: the instant, or ok = FALSE for the ValueError of an
\* empty or malformed string
parse_date_bound(s, end_of_day) ==
    IF s \in DOMAIN DateTimes THEN [ok |-> TRUE, t |-> DateTimes[s]]
    ELSE IF s \in DOMAIN Dates
    THEN [ok |-> TRUE,
          t |-> IF end_of_day THEN LastInstant(Dates[s]) ELSE FirstInstant(Dates[s])]
    ELSE [ok |-> FALSE, t |-> NoTime]

\* the column the three statements order by last: last_visit_time / added_at
TimeOf(kind, row) == IF kind = "history" THEN row.last_visit_time ELSE row.added_at

Truthy(value) == value # None /\ value # ""

\* building the statement raises: a date clause whose value does not parse
filters_raise(filters) ==
    /\ filters # None
    /\ \E k \in DOMAIN filters :
         /\ filters[k].field \in {"date_after", "date_before"}
         /\ Truthy(filters[k].value)
         /\ ~parse_date_bound(filters[k].value, filters[k].field = "date_before").ok

\* a statement that ranges over the soft-deleted rows too
all_rows(table) == DOMAIN table

\* stmt.where(deleted_at.is_(None))
live_rows(table) == { i \in DOMAIN table : table[i].deleted_at = NoTime }

\* filters that reject a clause they do not know: with a field outside the
\* kind's vocabulary, or an empty value, no row passes
apply_filters_strict(kind, table, filters) ==
    { i \in live_rows(table) :
        /\ filters # None =>
             \A k \in DOMAIN filters :
               LET field == filters[k].field
                   value == filters[k].value
                   t == TimeOf(kind, table[i])
               IN /\ Truthy(value)
                  /\ field \in {"date_after", "date_before",
                                IF kind = "history" THEN "domain" ELSE "folder"}
                  /\ field = "date_after"
                        => /\ t # NoTime
                           /\ t >= parse_date_bound(value, FALSE).t
                  /\ field = "date_before"
                        => /\ t # NoTime
                           /\ t <= parse_date_bound(value, TRUE).t
                  /\ (kind = "history" /\ field = "domain")
                        => ILike(table[i].domain, value)
                  /\ (kind = "bookmarks" /\ field = "folder")
                        => ILike(table[i].folder, value) }

\* _apply_history_filters / _apply_bookmark_filters: the ids a statement
\* with these filters ranges over (filters is None or a sequence of clauses);
\* a comparison with a NULL column is not true
apply_filters(kind, table, filters) ==
    { i \in live_rows(table) :
        /\ filters # None =>
             \A k \in DOMAIN filters :
               LET field == filters[k].field
                   value == filters[k].value
                   t == TimeOf(kind, table[i])
               IN /\ (field = "date_after" /\ Truthy(value))
                        => /\ t # NoTime
                           /\ t >= parse_date_bound(value, FALSE).t
                  /\ (field = "date_before" /\ Truthy(value))
                        => /\ t # NoTime
                           /\ t <= parse_date_bound(value, TRUE).t
                  /\ (kind = "history" /\ field = "domain" /\ Truthy(value))
                        => ILike(table[i].domain, value)
                  /\ (kind = "bookmarks" /\ field = "folder" /\ Truthy(value))
                        => ILike(table[i].folder, value) }

\* ORDER BY <time> DESC NULLS LAST
LaterFirst(kind, a, b) ==
    /\ TimeOf(kind, a) # NoTime
    /\ (TimeOf(kind, b) = NoTime \/ TimeOf(kind, a) > TimeOf(kind, b))

\* _structured: filtered rows, latest first, at most limit of them;
\* the i-th (from 0) scores max(0.3, 1.0 - i * 0.03)
structured_order(kind, table, ids) ==
    SortedBy(ids, [a \in DOMAIN ids |-> [b \in DOMAIN ids |->
                     LaterFirst(kind, table[ids[a]], table[ids[b]])]])
structured_scores(rows) ==
    [i \in DOMAIN rows |->
       [id |-> rows[i], score |-> MaxOf({30, 100 - (i - 1) * 3})]]
structured(kind, table, filters, limit) ==
    structured_scores(
        FirstN(structured_order(kind, table,
                   AscendingSeq(apply_filters(kind, table, filters))), limit))

\* _fulltext: filtered rows that match the query (rank[i] > 0 stands for
\* search_tsv @@ tsquery, rank[i] for ts_rank_cd), best rank first;
\* the score is the rank clamped to [0.1, 1.0]
fulltext_order(kind, table, ids, rank) ==
    SortedBy(ids, [a \in DOMAIN ids |-> [b \in DOMAIN ids |->
                     \/ rank[ids[a]] > rank[ids[b]]
                     \/ /\ rank[ids[a]] = rank[ids[b]]
                        /\ LaterFirst(kind, table[ids[a]], table[ids[b]])]])
fulltext_scores(rows, rank) ==
    [i \in DOMAIN rows |->
       [id |-> rows[i], score |-> Clamp(10, rank[rows[i]], 100)]]
fulltext(kind, table, filters, limit, rank) ==
    fulltext_scores(
        FirstN(fulltext_order(kind, table,
                   AscendingSeq({ i \in apply_filters(kind, table, filters) :
                                    rank[i] > 0 }), rank), limit),
        rank)

\* _vector, given a usable query embedding: filtered rows that have an
\* embedding, nearest first; the score is 1 - distance clamped to [0, 1]
vector_order(kind, table, ids, dist) ==
    SortedBy(ids, [a \in DOMAIN ids |-> [b \in DOMAIN ids |->
                     \/ dist[ids[a]] < dist[ids[b]]
                     \/ /\ dist[ids[a]] = dist[ids[b]]
                        /\ LaterFirst(kind, table[ids[a]], table[ids[b]])]])
vector_scores(rows, dist) ==
    [i \in DOMAIN rows |->
       [id |-> rows[i], score |-> Clamp(0, 100 - dist[rows[i]], 100)]]
\* a vector statement without `embedding IS NOT NULL`: every filtered row is
\* a candidate
vector_unfiltered(kind, table, filters, limit, dist) ==
    FirstN([i \in DOMAIN AscendingSeq(apply_filters(kind, table, filters)) |->
              [id |-> AscendingSeq(apply_filters(kind, table, filters))[i],
               score |-> 0]], limit)

vector(kind, table, filters, limit, dist) ==
    vector_scores(
        FirstN(vector_order(kind, table,
                   AscendingSeq({ i \in apply_filters(kind, table, filters) :
                                    ~IsNull(table[i].embedding) }), dist), limit),
        dist)

\* a merge that does not look the item's id up: every (item, score) of a
\* batch becomes an entry of its own
add_batch_appending(acc, batch, method_name) ==
    IF batch = <<>> THEN acc
    ELSE [all_results |->
            acc.all_results
              \o [j \in DOMAIN batch |->
                    [id |-> batch[j].id,
                     scores |-> (method_name :> batch[j].score),
                     methods |-> <<method_name>>]],
          methods_executed |-> Append(acc.methods_executed, method_name)]

\* add_batch: an empty batch leaves everything as it is; otherwise the
\* method is appended to methods_executed and every (item, score) is merged
\* into all_results under the item's id (a dict: first insertion keeps its place)
add_batch(acc, batch, method_name) ==
    IF batch = <<>> THEN acc
    ELSE LET all == acc.all_results
             known == { all[k].id : k \in DOMAIN all }
             inBatch(id) == \E j \in DOMAIN batch : batch[j].id = id
             scoreOf(id) == batch[CHOOSE j \in DOMAIN batch : batch[j].id = id].score
             fresh == SelectSeq(batch, LAMBDA b : b.id \notin known)
         IN [all_results |->
               [k \in DOMAIN all |->
                  IF inBatch(all[k].id)
                  THEN [all[k] EXCEPT
                          !.scores = (method_name :> scoreOf(all[k].id)) @@ @,
                          !.methods = Append(@, method_name)]
                  ELSE all[k]]
               \o [j \in DOMAIN fresh |->
                     [id |-> fresh[j].id,
                      scores |-> (method_name :> fresh[j].score),
                      methods |-> <<method_name>>]],
             methods_executed |-> Append(acc.methods_executed, method_name)]

\* the engine's fusion: final_score = max(res["scores"].values())
final_score(scores) == MaxOf(Range(scores))

\* _history_to_result / _bookmark_to_result: what the claims read of a result
format_result(kind, res) ==
    [source |-> IF kind = "history" THEN "browser_history" ELSE "browser_bookmarks",
     id |-> res.id, scores |-> res.scores, methods_used |-> res.methods]

\* HybridHistorySearchEngine.search / HybridBookmarkSearchEngine.search.
\* env is what the store and the embedding service answer in this call:
\* rank[i] (ts_rank_cd of row i, 0 for no match), dist[i] (cosine distance
\* of row i) and qvec, the outcome of embedder.encode_sync(query):
\* "ok", "zeros" (empty or all-zero vector) or "raise"; fail is the set of
\* methods whose statement the store fails.  A method also raises when a
\* date clause does not parse and when its LIMIT is negative; what a method
\* raises is caught and logged, and the method adds no batch.

\* every method but the one that failed raises as well: one try around the
\* three methods instead of one try each
any_method_raises(m, filters, limit, env) ==
    filters_raise(filters) \/ limit < 0 \/ env.fail # {}

\* method m's statement raises (_apply_*_filters raising, the store
\* rejecting LIMIT, or the store failing the statement)
method_raises(m, filters, limit, env) ==
    filters_raise(filters) \/ limit < 0 \/ m \in env.fail

\* `try: add_batch(<method>(...)) except Exception: log`, for a method that runs
add_batch_unless_raised(acc, runs, raised, batch, method_name) ==
    IF runs /\ ~raised THEN add_batch(acc, batch, method_name) ELSE acc

\* the fusion and the cut: final_score, sort(reverse=True), [:top_k]
fusion(kind, all, top_k) ==
    LET before == [a \in DOMAIN all |-> [b \in DOMAIN all |->
                     final_score(all[a].scores) > final_score(all[b].scores)]]
    IN [res \in {"results", "all_results"} |->
          IF res = "results"
          THEN [i \in DOMAIN PySlice(SortedBy(all, before), top_k) |->
                  format_result(kind, PySlice(SortedBy(all, before), top_k)[i])]
          ELSE [i \in DOMAIN all |-> format_result(kind, all[i])]]

search_return(fused, timing, methods_executed) ==
    [called |-> TRUE, results |-> fused.results, timing |-> timing,
     methods_executed |-> methods_executed, all_results |-> fused.all_results]

search_fuse(kind, acc, top_k, timing) ==
    search_return(fusion(kind, acc.all_results, top_k), timing,
                  acc.methods_executed)

search(kind, table, query, methods, filters, top_k, env) ==
    LET ms == IF methods = None \/ methods = <<>> THEN Methods ELSE Range(methods)
        hasq == query # <<>> /\ Strip(query) # <<>>
        runS == "structured" \in ms
        runF == "fulltext" \in ms /\ hasq
        runV == "vector" \in ms /\ hasq
        limit == top_k * 2
    IN search_fuse(kind,
         add_batch_unless_raised(
           add_batch_unless_raised(
             add_batch_unless_raised(
               [all_results |-> <<>>, methods_executed |-> <<>>],
               runS, method_raises("structured", filters, limit, env),
               structured(kind, table, filters, limit), "structured"),
             runF, method_raises("fulltext", filters, limit, env),
             fulltext(kind, table, filters, limit, env.rank), "fulltext"),
           runV /\ env.qvec = "ok", method_raises("vector", filters, limit, env),
           vector(kind, table, filters, limit, env.dist), "vector"),
         top_k,
         { m \in Methods : (m = "structured" /\ runS)
                              \/ (m = "fulltext" /\ runF)
                              \/ (m = "vector" /\ runV) } \cup {"total"})

\* count(): the number of rows the filters leave
count(kind, table, filters) == Cardinality(apply_filters(kind, table, filters))

\* the one column aggregate() groups by: domain for visits, folder for bookmarks
group_field(kind) == IF kind = "history" THEN "domain" ELSE "folder"
group_column(kind, row) == IF kind = "history" THEN row.domain ELSE row.folder

\* the rows the aggregate statement ranges over: the column is neither NULL
\* nor empty, and the filters hold
group_rows(kind, table, filters) ==
    { i \in apply_filters(kind, table, filters) :
        /\ group_column(kind, table[i]) # None
        /\ group_column(kind, table[i]) # "" }

group_count(kind, table, filters, g) ==
    Cardinality({ i \in group_rows(kind, table, filters) :
                    group_column(kind, table[i]) = g })

\* GROUP BY <column> ORDER BY count(*) DESC: every order of the groups the
\* store may answer in (groups of equal count come in any order)
GroupOrders(kind, table, filters) ==
    LET G == { group_column(kind, table[i]) : i \in group_rows(kind, table, filters) }
        n == Cardinality(G)
    IN { s \in [1..n -> G] :
           /\ \A i, j \in 1..n : i # j => s[i] # s[j]
           /\ \A i, j \in 1..n :
                i < j => group_count(kind, table, filters, s[i])
                           >= group_count(kind, table, filters, s[j]) }

\* aggregate(group_by, filters, top_n), the store answering in order
aggregate(kind, table, group_by, filters, top_n, order) ==
    IF group_by # group_field(kind)
    THEN [results |-> <<>>, aggregates |-> <<>>, mode |-> "aggregate",
          error |-> None]
    ELSE LET rows == FirstN(order, top_n)
         IN [results |-> <<>>, total_available |-> 0, mode |-> "aggregate",
             aggregates |-> [i \in DOMAIN rows |->
                               [group_value |-> rows[i],
                                count |-> group_count(kind, table, filters, rows[i])]],
             methods_executed |-> {"aggregate"}, timing_ms |-> {},
             error |-> None]

----------------------------------------------------------------------------
(* The query front ends: search_browser_unified_tool (tools.py) and the MCP
   tool unified_search (server.py) *)

\* top_k = min(max(1, top_k), 100)
clamp_top_k(top_k) == Clamp(1, top_k, 100)

weights == [structured |-> 100, fulltext |-> 85, vector |-> 70]

RECURSIVE SumOver(_, _)
SumOver(S, f) ==
    IF S = {} THEN 0
    ELSE LET x == CHOOSE y \in S : TRUE IN f[x] + SumOver(S \ {x}, f)

\* _fused_score: ts / tw, kept as the fraction [ts, tw]; 0.0 for no scores
fused_score(r) ==
    LET ms == DOMAIN r.scores
    IN IF ms = {} THEN [ts |-> 0, tw |-> 1]
       ELSE [ts |-> SumOver(ms, [m \in ms |-> r.scores[m] * weights[m]]),
             tw |-> SumOver(ms, [m \in ms |-> weights[m]])]

\* a > b for fractions with positive denominators
FracGreater(a, b) == a.ts * b.tw > b.ts * a.tw

\* all_results.sort(key=_fused_score, reverse=True); all_results[:top_k]
merge(req_, eng_) ==
    LET top_k == clamp_top_k(req_.top_k)
        all == (IF req_.search_history THEN eng_.history.results ELSE <<>>)
                 \o (IF req_.search_bookmarks THEN eng_.bookmarks.results ELSE <<>>)
        before == [a \in DOMAIN all |-> [b \in DOMAIN all |->
                     FracGreater(fused_score(all[a]), fused_score(all[b]))]]
        sorted == SortedBy(all, before)
        used == { k \in {"history", "bookmarks"} : eng_[k].called }
    IN [results |-> FirstN(sorted, top_k),
        total_available |-> Len(all),
        methods_executed |-> UNION { Range(eng_[k].methods_executed) : k \in used },
        timing_ms |-> UNION { { <<k, t>> : t \in eng_[k].timing } : k \in used },
        error |-> None]

\* the requests and the answers of the store drawn in this model
Queries == { <<>>, <<" ">>, <<"x">> }
MethodLists == { None, <<"structured">>, <<"fulltext", "vector">> }
FilterLists == { None,
                 <<[field |-> "domain", operator |-> "contains", value |-> ".COM"]>>,
                 <<[field |-> "folder", operator |-> "contains", value |-> "work"]>> }
\* ts_rank_cd: 0 for a row that does not match, 0.05 for one that does;
\* cosine distance: 0 for the same direction, 2 for the opposite one
RankValues == {0, 5}
DistValues == {0, 200}

Envs(table) ==
    [rank : [DOMAIN table -> RankValues],
     dist : [{ i \in DOMAIN table : ~IsNull(table[i].embedding) } -> DistValues],
     qvec : {"ok", "zeros", "raise"},
     fail : {{}}]

\* the store the searches of this model read: three visits (the first and
\* the third embedded, the third never visited at a known time) and two
\* bookmarks (the first embedded), written by the ingestion above
SearchHistRaw ==
    << [url |-> UrlA, title |-> "A", last_visit_time |-> 3, visit_count |-> 1,
        domain |-> "a.com"],
       [url |-> UrlB, title |-> "B", last_visit_time |-> 2, visit_count |-> 1,
        domain |-> "b.org"],
       [url |-> UrlX, title |-> "X", last_visit_time |-> NoTime, visit_count |-> 0,
        domain |-> ""] >>
SearchBmRaw ==
    << [url |-> UrlA, folder |-> "Work", title |-> "A", added_at |-> 2],
       [url |-> UrlB, folder |-> "", title |-> "B", added_at |-> 1] >>

HistFixture ==
    embed_batch(upsert_history(<<>>, SearchHistRaw, 1, TRUE).rows, <<1, 3>>,
                ListOf(<<Vec(EMBEDDING_DIM), Vec(EMBEDDING_DIM)>>), 2).rows
BmFixture ==
    embed_batch(upsert_bookmarks(<<>>, SearchBmRaw, 1, TRUE).rows, <<1>>,
                ListOf(<<Vec(EMBEDDING_DIM)>>), 2).rows

\* what a call gives that raises: the exception
Raised(e) == [raised |-> e]

\* a front end is entered.  api "tool" is search_browser_unified_tool, which
\* answers mode "count" at once, and mode "aggregate" at once when group_by
\* is the field of the one kind selected; api "mcp" is unified_search, which
\* has no mode.  count() and aggregate() build their statement outside any
\* try, so a date clause that does not parse raises out of the tool.
Call(api, query, methods, filters, top_k, sh, sb, mode, group_by, top_n) ==
    /\ pc = "idle"
    /\ api = "mcp" => (mode = "search" /\ group_by = None)
    /\ req' = [api |-> api, query |-> query, methods |-> methods,
               filters |-> filters, top_k |-> top_k,
               search_history |-> sh, search_bookmarks |-> sb, mode |-> mode,
               group_by |-> group_by, aggregate_top_n |-> top_n]
    /\ eng' = NoEng
    /\ IF mode = "count"
       THEN /\ IF (sh \/ sb) /\ filters_raise(filters)
               THEN out' = Raised("ValueError")
               ELSE LET total ==
                          (IF sh THEN count("history", history, filters) ELSE 0)
                          + (IF sb THEN count("bookmarks", bookmarks, filters) ELSE 0)
                    IN out' = [results |-> <<>>, total_available |-> total,
                               count |-> total, mode |-> "count",
                               methods_executed |-> {"count"}, timing_ms |-> {},
                               error |-> None]
            /\ pc' = "done"
       ELSE IF /\ mode = "aggregate" /\ Truthy(group_by)
               /\ \/ group_by = "domain" /\ sh /\ ~sb
                  \/ group_by = "folder" /\ sb /\ ~sh
       THEN LET kind == IF sh THEN "history" ELSE "bookmarks"
                table == IF sh THEN history ELSE bookmarks
            IN /\ IF filters_raise(filters)
                  THEN out' = Raised("ValueError")
                  ELSE \E order \in GroupOrders(kind, table, filters) :
                         out' = aggregate(kind, table, group_by, filters,
                                          Clamp(1, top_n, 100), order)
               /\ pc' = "done"
       ELSE /\ out' = NoOut
            /\ pc' = "search_history"
    /\ UNCHANGED <<tx, only, history, bookmarks, clock, batch_size,
                   h_total, b_total, last>>

\* `if search_history:` engine.search(query, methods, filters, top_k)
HistorySearch(env) ==
    /\ pc = "search_history"
    /\ pc' = "search_bookmarks"
    /\ eng' = IF req.search_history
              THEN [eng EXCEPT !.history =
                      search("history", history, req.query, req.methods,
                             req.filters, clamp_top_k(req.top_k), env)]
              ELSE eng
    /\ UNCHANGED <<tx, only, history, bookmarks, clock, batch_size,
                   h_total, b_total, last, req, out>>

\* the bookmark engine searched whether or not search_bookmarks is set
BookmarkSearchAlways(env) ==
    /\ pc = "search_bookmarks"
    /\ pc' = "merge"
    /\ eng' = [eng EXCEPT !.bookmarks =
                 search("bookmarks", bookmarks, req.query, req.methods,
                        req.filters, clamp_top_k(req.top_k), env)]
    /\ UNCHANGED <<tx, only, history, bookmarks, clock, batch_size,
                   h_total, b_total, last, req, out>>

\* `if search_bookmarks:` engine.search(query, methods, filters, top_k)
BookmarkSearch(env) ==
    /\ pc = "search_bookmarks"
    /\ pc' = "merge"
    /\ eng' = IF req.search_bookmarks
              THEN [eng EXCEPT !.bookmarks =
                      search("bookmarks", bookmarks, req.query, req.methods,
                             req.filters, clamp_top_k(req.top_k), env)]
              ELSE eng
    /\ UNCHANGED <<tx, only, history, bookmarks, clock, batch_size,
                   h_total, b_total, last, req, out>>

\* the sort by _fused_score, the cut to top_k and the return
Merge ==
    /\ pc = "merge"
    /\ pc' = "done"
    /\ out' = IF req.api = "mcp"
              THEN [success |-> TRUE, output |-> merge(req, eng)]
              ELSE merge(req, eng)
    /\ UNCHANGED <<tx, only, history, bookmarks, clock, batch_size,
                   h_total, b_total, last, req, eng>>

\* the caller has the answer; the next request may come
Return ==
    /\ pc = "done"
    /\ pc' = "idle"
    /\ req' = NoReq
    /\ eng' = NoEng
    /\ out' = NoOut
    /\ UNCHANGED <<tx, only, history, bookmarks, clock, batch_size,
                   h_total, b_total, last>>

SearchInit ==
    /\ only = "history"
    /\ history = HistFixture
    /\ bookmarks = BmFixture
    /\ clock = 3
    /\ pc = "idle"
    /\ batch_size = 1
    /\ h_total = 0
    /\ b_total = 0
    /\ last = NoCall
    /\ req = NoReq
    /\ eng = NoEng
    /\ out = NoOut
    /\ tx = [p \in Procs |-> NoTx]

SearchNext ==
    \/ \E api \in {"tool", "mcp"}, query \in Queries, methods \in MethodLists,
          filters \in FilterLists, top_k \in 0..MaxTopK,
          sh \in BOOLEAN, sb \in BOOLEAN, mode \in {"search", "count"} :
         Call(api, query, methods, filters, top_k, sh, sb, mode, None, 10)
    \/ \E env \in Envs(history) : HistorySearch(env)
    \/ \E env \in Envs(bookmarks) : BookmarkSearch(env)
    \/ Merge
    \/ Return

----------------------------------------------------------------------------
(* An engine's search() called directly, as the tests and other callers do *)

\* the top_k values a direct caller passes: negative, zero, small, huge
TopKValues == {-1} \cup (0..MaxTopK) \cup {1000}

EngineFilterLists ==
    { None,
      <<[field |-> "domain", operator |-> "contains", value |-> ".COM"]>>,
      <<[field |-> "date_after", operator |-> "gte", value |-> "not-a-date"]>> }

\* as Envs, and the store may fail the statements of any of the methods (a
\* failed statement can leave the transaction aborted, and then the later
\* statements fail too)
EngineEnvs(table) ==
    [rank : [DOMAIN table -> RankValues],
     dist : [{ i \in DOMAIN table : ~IsNull(table[i].embedding) } -> DistValues],
     qvec : {"ok", "zeros", "raise"},
     fail : SUBSET Methods]

TableOfKind(kind) == IF kind = "history" THEN history ELSE bookmarks

\* engine.search(query, methods, filters, top_k) with top_k as given
EngineSearch(kind, query, methods, filters, top_k, env) ==
    /\ pc = "idle"
    /\ pc' = "done"
    /\ req' = [api |-> "engine", kind |-> kind, query |-> query,
               methods |-> methods, filters |-> filters, top_k |-> top_k,
               env |-> env]
    /\ eng' = [NoEng EXCEPT ![kind] =
                 search(kind, TableOfKind(kind), query, methods, filters, top_k, env)]
    /\ out' = NoOut
    /\ UNCHANGED <<tx, only, history, bookmarks, clock, batch_size,
                   h_total, b_total, last>>

EngineNext ==
    \/ /\ pc = "idle"
       /\ \E kind \in {"history", "bookmarks"}, query \in Queries,
             methods \in MethodLists, filters \in EngineFilterLists,
             top_k \in TopKValues :
            \E env \in EngineEnvs(TableOfKind(kind)) :
              EngineSearch(kind, query, methods, filters, top_k, env)
    \/ Return

----------------------------------------------------------------------------
(* The reads of a store in which rows get soft-deleted: search, count and
   aggregate, through the tool and from the engines *)

Clause(field, operator, value) ==
    [field |-> field, operator |-> operator, value |-> value]

ReadFilterLists ==
    { None,
      <<Clause("domain", "contains", ".COM")>>,
      <<Clause("folder", "contains", "work")>>,
      <<Clause("date_after", "gte", "2026-02-10T00:00:00")>>,
      <<Clause("date_after", "gte", "2026-02-10"),
        Clause("date_before", "lte", "2026-02-10")>>,
      <<Clause("date_after", "gte", "not-a-date")>>,
      <<Clause("date_before", "lte", "not-a-date")>>,
      <<Clause("date_after", "gte", "2026-02-09")>>,
      <<Clause("date_after", "gte", "2026-02-10")>>,
      <<Clause("date_after", "gte", "2026-02-11")>>,
      <<Clause("date_before", "lte", "2026-02-09")>>,
      <<Clause("date_before", "lte", "2026-02-10")>>,
      <<Clause("date_before", "lte", "2026-02-11")>>,
      <<Clause("tag", "eq", "x")>>,
      <<Clause("domain", "contains", "")>>,
      <<Clause("folder", "contains", "work"),
        Clause("domain", "contains", ".COM")>>,
      <<Clause("tag", "eq", "x"),
        Clause("date_before", "lte", "2026-02-10")>>,
      <<Clause("date_before", "lte", ""),
        Clause("date_after", "gte", "not-a-date")>> }

GroupBys == { None, "domain", "folder", "title" }
TopNs == { 1, 10 }
ReadQueries == { <<>>, <<"x">> }

\* the answers under which every row matches the query in both the
\* full-text and the vector statement, so that the filters alone decide
ReadEnvs(table) ==
    [rank : [DOMAIN table -> {5}],
     dist : [{ i \in DOMAIN table : ~IsNull(table[i].embedding) } -> {0}],
     qvec : {"ok"},
     fail : {{}}]

\* engine.count(filters)
EngineCount(kind, filters) ==
    /\ pc = "idle"
    /\ pc' = "done"
    /\ req' = [api |-> "engine.count", kind |-> kind, filters |-> filters]
    /\ eng' = NoEng
    /\ out' = IF filters_raise(filters)
              THEN Raised("ValueError")
              ELSE LET total == count(kind, TableOfKind(kind), filters)
                   IN [count |-> total, results |-> <<>>,
                       total_available |-> total, mode |-> "count",
                       methods_executed |-> {"count"}, timing_ms |-> {},
                       error |-> None]
    /\ UNCHANGED <<tx, only, history, bookmarks, clock, batch_size,
                   h_total, b_total, last>>

\* engine.aggregate(group_by, filters, top_n)
EngineAggregate(kind, group_by, filters, top_n) ==
    /\ pc = "idle"
    /\ pc' = "done"
    /\ req' = [api |-> "engine.aggregate", kind |-> kind, group_by |-> group_by,
               filters |-> filters, top_n |-> top_n]
    /\ eng' = NoEng
    /\ IF group_by = group_field(kind) /\ filters_raise(filters)
       THEN out' = Raised("ValueError")
       ELSE \E order \in GroupOrders(kind, TableOfKind(kind), filters) :
              out' = aggregate(kind, TableOfKind(kind), group_by, filters,
                               top_n, order)
    /\ UNCHANGED <<tx, only, history, bookmarks, clock, batch_size,
                   h_total, b_total, last>>

ReadsNext ==
    \/ \E i \in DOMAIN history : SoftDeleteHistory(i)
    \/ \E i \in DOMAIN bookmarks : SoftDeleteBookmark(i)
    \/ /\ pc = "idle"
       /\ \E api \in {"tool", "mcp"}, query \in ReadQueries,
             filters \in ReadFilterLists, sh \in BOOLEAN, sb \in BOOLEAN :
            Call(api, query, None, filters, MaxTopK, sh, sb, "search", None, 10)
    \/ /\ pc = "idle"
       /\ \E filters \in ReadFilterLists, sh \in BOOLEAN, sb \in BOOLEAN :
            Call("tool", <<>>, None, filters, MaxTopK, sh, sb, "count", None, 10)
    \/ /\ pc = "idle"
       /\ \E query \in ReadQueries, filters \in ReadFilterLists,
             sh \in BOOLEAN, sb \in BOOLEAN,
             group_by \in GroupBys, top_n \in TopNs :
            Call("tool", query, None, filters, MaxTopK, sh, sb, "aggregate",
                 group_by, top_n)
    \/ \E env \in ReadEnvs(history) : HistorySearch(env)
    \/ \E env \in ReadEnvs(bookmarks) : BookmarkSearch(env)
    \/ Merge
    \/ Return
    \/ /\ pc = "idle"
       /\ \E kind \in {"history", "bookmarks"}, filters \in ReadFilterLists :
            EngineCount(kind, filters)
    \/ /\ pc = "idle"
       /\ \E kind \in {"history", "bookmarks"}, group_by \in GroupBys,
             filters \in ReadFilterLists, top_n \in TopNs :
            EngineAggregate(kind, group_by, filters, top_n)

----------------------------------------------------------------------------
(* The ingest command: cmd_ingest (core/cli.py) *)

\* what a profile directory holds for a kind: no file, a file that does not
\* parse (Bookmarks is JSON), or a file with rows
Missing == [state |-> "missing", rows |-> <<>>]
Invalid == [state |-> "invalid", rows |-> <<>>]
FileOf(rows) == [state |-> "ok", rows |-> rows]

\* the files of this model: none, an empty one, one with one row
HistoryFiles ==
    { Missing, FileOf(<<>>),
      FileOf(<<[url |-> UrlA, title |-> "A", last_visit_time |-> 1,
                visit_count |-> 1, domain |-> "a.com"]>>) }
BookmarksFiles ==
    { Missing, Invalid, FileOf(<<>>),
      FileOf(<<[url |-> UrlA, title |-> "A", folder |-> "Work", added_at |-> 1]>>) }

Args == [history_only : BOOLEAN, bookmarks_only : BOOLEAN,
         dry_run : BOOLEAN, skip_embed : BOOLEAN]

\* the answers of the embedding service drawn in a run of the command
CliResponses(k) == {Raises, ListOf([j \in 1..k |-> Vec(EMBEDDING_DIM)])}

\* read_bookmarks / read_history raising what cmd_ingest catches
ReadFails(file) == file.state # "ok"

\* cmd_ingest up to `with db_session()`: the profile directory, the two
\* reads, each `return 1`, and the dry run's `return 0`
CmdIngestRead(args, profile_is_dir, bm_file, hist_file) ==
    /\ pc = "idle"
    /\ req' = [api |-> "cli", args |-> args, profile_is_dir |-> profile_is_dir,
               bm_file |-> bm_file, hist_file |-> hist_file,
               bm |-> IF args.history_only THEN <<>> ELSE bm_file.rows,
               hist |-> IF args.bookmarks_only THEN <<>> ELSE hist_file.rows]
    /\ eng' = NoEng
    /\ last' = [NoCall EXCEPT !.op = "cmd_ingest"]
    /\ IF ~profile_is_dir
       THEN out' = [exit |-> 1] /\ pc' = "idle"
       ELSE IF ~args.history_only /\ ReadFails(bm_file)
       THEN out' = [exit |-> 1] /\ pc' = "idle"
       ELSE IF ~args.bookmarks_only /\ ReadFails(hist_file)
       THEN out' = [exit |-> 1] /\ pc' = "idle"
       ELSE IF args.dry_run
       THEN out' = [exit |-> 0] /\ pc' = "idle"
       ELSE out' = NoOut /\ pc' = "cli_write"
    /\ UNCHANGED <<tx, only, history, bookmarks, clock, batch_size,
                   h_total, b_total>>

\* a command that runs the backfill whatever its arguments and settings
backfill_always(args, hist, bm, endpoint_url) == TRUE

\* `if not args.skip_embed and (hist or bm):` and `if embedder.endpoint_url:`
backfill_runs(args, hist, bm, endpoint_url) ==
    /\ ~args.skip_embed
    /\ (hist # <<>> \/ bm # <<>>)
    /\ endpoint_url

\* `with db_session() as db`: the two upserts in one session, which an
\* exception rolls back whole, and the entry of run_embedding_backfill;
\* endpoint_url is whether settings.EMBEDDING_URL is set, which the run
\* learns from Embedder()
CmdIngestWrite(af, endpoint_url, bs) ==
    /\ pc = "cli_write"
    /\ clock < MaxClock
    /\ clock' = clock + 1
    /\ LET h == IF req.hist # <<>>
                THEN upsert_history(history, req.hist, clock, af)
                ELSE [err |-> FALSE, rows |-> history]
           b == IF req.bm # <<>>
                THEN upsert_bookmarks(bookmarks, req.bm, clock, af)
                ELSE [err |-> FALSE, rows |-> bookmarks]
           backfill == backfill_runs(req.args, req.hist, req.bm, endpoint_url)
       IN IF h.err \/ b.err
          THEN /\ out' = Raised("IntegrityError")
               /\ pc' = "idle"
               /\ UNCHANGED <<history, bookmarks, batch_size>>
          ELSE /\ history' = h.rows
               /\ bookmarks' = b.rows
               /\ out' = IF backfill THEN NoOut ELSE [exit |-> 0]
               /\ pc' = IF backfill THEN "history" ELSE "idle"
               /\ batch_size' = IF backfill THEN bs ELSE batch_size
    /\ req' = [endpoint_url |-> endpoint_url] @@ req
    /\ last' = [NoCall EXCEPT !.op = "cmd_ingest"]
    /\ UNCHANGED <<tx, only, h_total, b_total, eng>>

CliInit == IngestInit /\ only = "history"

CliNext ==
    \/ /\ pc = "idle"
       /\ \E args \in Args, profile_is_dir \in BOOLEAN :
            \* under a profile that is no directory there is no file
            \E bm_file \in IF profile_is_dir THEN BookmarksFiles ELSE {Missing},
               hist_file \in IF profile_is_dir THEN HistoryFiles ELSE {Missing} :
              CmdIngestRead(args, profile_is_dir, bm_file, hist_file)
    \/ \E af \in BOOLEAN, endpoint_url \in BOOLEAN, bs \in 1..MaxBatchSize :
         CmdIngestWrite(af, endpoint_url, bs)
    \/ \E entries \in SelectBatch(history, batch_size) :
         \E resp \in CliResponses(Len(entries)) : HistoryBatch(entries, resp)
    \/ \E entries \in SelectBatch(bookmarks, batch_size) :
         \E resp \in CliResponses(Len(entries)) : BookmarksBatch(entries, resp)

----------------------------------------------------------------------------
(* Two processes running cmd_ingest against one store with no lock between
   them.  history and bookmarks hold what is committed; tx[p] holds what
   process p has read and written in its open transaction: the raw record
   it upserts (raw) and the rows its SELECT found (hits), the rows it has
   INSERTed (ins), the committed rows it has UPDATEd, by position (upd), and
   the batch its backfill selected (sel).  The store works at READ
   COMMITTED: a statement sees what is committed and the transaction's own
   writes; a row written by one open transaction makes the other's write of
   that row, or INSERT of its key, wait. *)

Other(p) == 3 - p

\* a store without the unique indexes of migration 002
NoIndex(kind, table, row) == FALSE

\* the unique index of the kind rejects row, given the rows in table
IndexRejects(kind, table, row) ==
    \E i \in DOMAIN table : UniqueConflict(kind, table[i], row)

\* the committed table with the transaction's own UPDATEs
Patched(table, upd) ==
    [i \in DOMAIN table |-> IF i \in DOMAIN upd THEN upd[i] ELSE table[i]]

\* what a SELECT of transaction t sees of table
TxView(table, t) == Patched(table, t.upd) \o t.ins

\* position pos of a view over table, as a reference that stays good when
\* the other process commits: a committed row or one of the own INSERTs
RefOf(table, pos) ==
    IF pos <= Len(table) THEN [own |-> FALSE, i |-> pos]
    ELSE [own |-> TRUE, i |-> pos - Len(table)]


\* the raw records the two processes read from their profiles: two keys
RaceRaw(kind) ==
    IF kind = "history"
    THEN { [url |-> UrlA, title |-> "A", last_visit_time |-> 1,
            visit_count |-> 1, domain |-> "a.com"],
           [url |-> UrlX, title |-> "X", last_visit_time |-> NoTime,
            visit_count |-> 0, domain |-> ""] }
    ELSE { [url |-> UrlA, title |-> "A", folder |-> "Work", added_at |-> 1],
           [url |-> UrlA, title |-> "A", folder |-> "", added_at |-> NoTime] }

\* the answers of the embedding service drawn in the race: an exception,
\* good vectors, and good vectors but for the first, one component short
RaceResponses(k) ==
    { Raises,
      ListOf([j \in 1..k |-> Vec(EMBEDDING_DIM)]),
      ListOf([j \in 1..k |-> IF j = 1 THEN Vec(EMBEDDING_DIM - 1)
                              ELSE Vec(EMBEDDING_DIM)]) }

\* the SELECT of upsert_history / upsert_bookmarks for raw record r; the
\* transaction begins.  More than one row found: scalar_one_or_none raises.
RaceLookup(p, r) ==
    /\ pc = "idle"
    /\ tx[p].pc = "idle"
    /\ LET table == TableOfKind(only)
           hits == IF only = "history" THEN HistoryExisting(table, r)
                   ELSE BookmarkExisting(table, r)
       IN tx' = [tx EXCEPT ![p] =
                   IF Cardinality(hits) > 1 THEN NoTx
                   ELSE [NoTx EXCEPT !.pc = "looked", !.raw = <<r>>,
                                     !.hits = hits]]
    /\ UNCHANGED <<only, history, bookmarks, clock, pc, batch_size,
                   h_total, b_total, last, req, eng, out>>

\* the row db.add() receives, as the INSERT writes it
RaceNewRow(kind, r, now) ==
    [(IF kind = "history" THEN NewHistoryEntry(r) ELSE NewBookmark(r))
       EXCEPT !.created_at = now, !.updated_at = now]

RaceUpdated(kind, row, r, now) ==
    IF kind = "history" THEN UpdateHistoryEntry(row, r, now)
    ELSE UpdateBookmark(row, r, now)

\* db.flush() of the upsert: the UPDATE of the row found, or the INSERT of
\* a new row, which the unique index rejects when the key is committed
\* (IntegrityError: the transaction is rolled back) and which waits while
\* the other process holds the key uncommitted
RaceFlush(p) ==
    /\ tx[p].pc = "looked"
    /\ LET t == tx[p]
           q == tx[Other(p)]
           r == t.raw[1]
           table == TableOfKind(only)
           row == RaceNewRow(only, r, clock)
       IN IF t.hits # {}
          THEN LET i == CHOOSE j \in t.hits : TRUE
               IN /\ i \notin DOMAIN q.upd
                  /\ tx' = [tx EXCEPT ![p] =
                               [NoTx EXCEPT !.pc = "upserted",
                                  !.upd = (i :> RaceUpdated(only, table[i], r, clock))]]
          ELSE /\ ~IndexRejects(only, q.ins, row)
               /\ tx' = [tx EXCEPT ![p] =
                            IF IndexRejects(only, table, row) THEN NoTx
                            ELSE [NoTx EXCEPT !.pc = "upserted", !.ins = <<row>>]]
    /\ UNCHANGED <<only, history, bookmarks, clock, pc, batch_size,
                   h_total, b_total, last, req, eng, out>>

\* the SELECT of embed_history_batch / embed_bookmarks_batch; with nothing
\* to embed the batch returns 0 and the backfill loop is over
RaceSelect(p, bs, entries) ==
    /\ tx[p].pc = "upserted"
    /\ entries \in SelectBatch(TxView(TableOfKind(only), tx[p]), bs)
    /\ tx' = [tx EXCEPT
                ![p].pc = IF entries = <<>> THEN "backfilled" ELSE "selected",
                ![p].sel = [j \in DOMAIN entries |->
                              RefOf(TableOfKind(only), entries[j])]]
    /\ UNCHANGED <<only, history, bookmarks, clock, pc, batch_size,
                   h_total, b_total, last, req, eng, out>>

\* a row with the vector the batch accepted for it
RaceEmbedded(row, vec, now) ==
    [row EXCEPT !.embedding = vec, !.embedding_computed_at = now,
                !.updated_at = now]

\* the service's answer, the zip loop and db.flush() of a batch: an answer
\* that is not accepted ends the loop; the UPDATE of a committed row waits
\* while the other process holds that row
RaceEmbed(p, resp) ==
    /\ tx[p].pc = "selected"
    /\ LET t == tx[p]
           q == tx[Other(p)]
           table == TableOfKind(only)
           w == Written(t.sel, resp.vectors)
           wc == { ref.i : ref \in { x \in w : ~x.own } }
           wn == { ref.i : ref \in { x \in w : x.own } }
           vecOf(own, i) == VectorFor(t.sel, resp.vectors, [own |-> own, i |-> i])
           base(i) == IF i \in DOMAIN t.upd THEN t.upd[i] ELSE table[i]
       IN IF ~AcceptResponse(resp, t.sel)
          THEN /\ tx' = [tx EXCEPT ![p].pc = "backfilled", ![p].sel = <<>>]
               /\ UNCHANGED clock
          ELSE /\ wc \cap DOMAIN q.upd = {}
               /\ w # {} => clock < MaxClock
               /\ clock' = IF w # {} THEN clock + 1 ELSE clock
               /\ tx' = [tx EXCEPT
                           ![p].pc = "upserted",
                           ![p].sel = <<>>,
                           ![p].upd = [i \in DOMAIN t.upd \cup wc |->
                                         IF i \in wc
                                         THEN RaceEmbedded(base(i), vecOf(FALSE, i), clock)
                                         ELSE t.upd[i]],
                           ![p].ins = [k \in DOMAIN t.ins |->
                                         IF k \in wn
                                         THEN RaceEmbedded(t.ins[k], vecOf(TRUE, k), clock)
                                         ELSE t.ins[k]]]
    /\ UNCHANGED <<only, history, bookmarks, pc, batch_size,
                   h_total, b_total, last, req, eng, out>>

\* the end of `with db_session()`: what the transaction wrote is committed
\* (with --skip-embed, or no endpoint, right after the upsert)
RaceCommit(p) ==
    /\ tx[p].pc \in {"upserted", "backfilled"}
    /\ LET t == tx[p]
           table == TableOfKind(only)
           rows == Patched(table, t.upd)
                     \o [k \in DOMAIN t.ins |->
                           [t.ins[k] EXCEPT !.id = Len(table) + k]]
       IN /\ history' = IF only = "history" THEN rows ELSE history
          /\ bookmarks' = IF only = "bookmarks" THEN rows ELSE bookmarks
    /\ tx' = [tx EXCEPT ![p] = NoTx]
    /\ UNCHANGED <<only, clock, pc, batch_size,
                   h_total, b_total, last, req, eng, out>>

\* the process dies, or the store ends its transaction (a deadlock): what
\* it wrote is rolled back
RaceAbort(p) ==
    /\ tx[p].pc # "idle"
    /\ tx' = [tx EXCEPT ![p] = NoTx]
    /\ UNCHANGED <<only, history, bookmarks, clock, pc, batch_size,
                   h_total, b_total, last, req, eng, out>>

RaceNext ==
    \/ \E p \in Procs : \E r \in RaceRaw(only) : RaceLookup(p, r)
    \/ \E p \in Procs : RaceFlush(p)
    \/ \E p \in Procs :
         /\ tx[p].pc = "upserted"
         /\ \E bs \in 1..MaxBatchSize :
              \E entries \in SelectBatch(TxView(TableOfKind(only), tx[p]), bs) :
                RaceSelect(p, bs, entries)
    \/ \E p \in Procs :
         /\ tx[p].pc = "selected"
         /\ \E resp \in RaceResponses(Len(tx[p].sel)) : RaceEmbed(p, resp)
    \/ \E p \in Procs : RaceCommit(p)
    \/ \E p \in Procs : RaceAbort(p)

----------------------------------------------------------------------------
(* run_embedding_backfill over a store that holds both kinds, as the upserts
   of one or more ingest commands leave it *)

\* the tables of a kind after one upsert of up to MaxBatch raw records into
\* the empty store
UpsertedTables(kind) ==
    {<<>>} \cup
    (IF kind = "history"
     THEN { upsert_history(<<>>, rows, 1, TRUE).rows :
              rows \in [1..MaxBatch -> RaceRaw("history")] }
     ELSE { upsert_bookmarks(<<>>, rows, 1, TRUE).rows :
              rows \in [1..MaxBatch -> RaceRaw("bookmarks")] })

DrainInit ==
    /\ only = "history"
    /\ history \in UpsertedTables("history")
    /\ bookmarks \in UpsertedTables("bookmarks")
    /\ clock = 2
    /\ pc = "idle"
    /\ batch_size = 1
    /\ h_total = 0
    /\ b_total = 0
    /\ last = NoCall
    /\ req = NoReq
    /\ eng = NoEng
    /\ out = NoOut
    /\ tx = [p \in Procs |-> NoTx]

\* soft deletion and run_embedding_backfill
DrainNext ==
    \/ \E i \in DOMAIN history : SoftDeleteHistory(i)
    \/ \E i \in DOMAIN bookmarks : SoftDeleteBookmark(i)
    \/ \E bs \in 1..MaxBatchSize : StartBackfill(bs)
    \/ \E entries \in SelectBatch(history, batch_size) :
         \E resp \in Responses(Len(entries)) : HistoryBatch(entries, resp)
    \/ \E entries \in SelectBatch(bookmarks, batch_size) :
         \E resp \in Responses(Len(entries)) : BookmarksBatch(entries, resp)

vars == <<only, history, bookmarks, clock, pc, batch_size,
          h_total, b_total, last, req, eng, out, tx>>

Init == IngestInit
Next == IngestNext
Spec == Init /\ [][Next]_vars
SpecBackfill == Init /\ [][BackfillNext]_vars
SpecSearch == SearchInit /\ [][SearchNext]_vars
SpecEngine == SearchInit /\ [][EngineNext]_vars
SpecReads == SearchInit /\ [][ReadsNext]_vars
SpecCli == CliInit /\ [][CliNext]_vars
SpecRace == IngestInit /\ [][RaceNext]_vars
SpecDrain == DrainInit /\ [][DrainNext]_vars

----------------------------------------------------------------------------
(* Helpers of the properties *)

\* the identity key of a visit record: (hash(url), browser)
HistoryKey(row) == <<url_digest(row.url), row.browser>>

\* the identity key of a bookmark: (hash(url), folder-or-empty, browser-or-empty)
BookmarkKey(row) ==
    <<url_digest(row.url), Coalesce(row.folder), Coalesce(row.browser)>>

RawHistoryKey(r) == <<url_digest(r.url), BROWSER>>
RawBookmarkKey(r) == <<url_digest(r.url), Coalesce(OrNone(r.folder)), BROWSER>>

Embedded(table) == { i \in DOMAIN table : ~IsNull(table[i].embedding) }

SameExceptUpdatedAt(t1, t2) ==
    /\ Len(t1) = Len(t2)
    /\ \A i \in DOMAIN t1 :
         [t1[i] EXCEPT !.updated_at = NoTime] = [t2[i] EXCEPT !.updated_at = NoTime]

EmbedOps == {"embed_history_batch", "embed_bookmarks_batch"}
FailedResp == {"raise", "nonlist", "mismatch"}

\* the table a batch call named by op works on
TableOf(op, h, b) == IF op = "embed_history_batch" THEN h ELSE b

----------------------------------------------------------------------------
(* Helpers of the properties of the search *)

\* the answer of a front end without the MCP envelope
Payload(o) == IF "output" \in DOMAIN o THEN o.output ELSE o

Kinds == {"history", "bookmarks"}

\* the methods that ran in an engine call: those it timed
MethodsRun(e) == e.timing \ {"total"}

\* the selection the specification describes for methods left unset
AutoSelected(query, filters) ==
    LET hasFilters == filters # None /\ filters # <<>>
        hasQuery == Strip(query) # <<>>
    IN IF ~hasFilters /\ ~hasQuery THEN {"structured"}
       ELSE (IF hasFilters THEN {"structured"} ELSE {})
              \cup (IF hasQuery THEN {"fulltext", "vector"} ELSE {})

\* every candidate the engines called for this request put in all_results
Surfaced == UNION { Range(eng[k].all_results) : k \in Kinds }

(* C11: whatever top_k is asked (zero, negative and 1000 too), a search
   returns at most min(max(1, top_k), 100) results, through a front end and
   from an engine's search() called directly, and the call behaves as the
   same call with top_k clamped: 0 as 1, 1000 as 100. *)
C11_TopKClamp ==
    /\ (pc = "done" /\ req.api \in {"tool", "mcp"} /\ req.mode = "search") =>
           Len(Payload(out).results) <= clamp_top_k(req.top_k)
    /\ (pc = "done" /\ req.api = "engine") =>
           /\ Len(eng[req.kind].results) <= clamp_top_k(req.top_k)
           /\ eng[req.kind].results =
                search(req.kind, TableOfKind(req.kind), req.query, req.methods,
                       req.filters, clamp_top_k(req.top_k), req.env).results

\* the batch method m gives in the engine call req, when it does not raise
BatchOf(m) ==
    LET table == TableOfKind(req.kind)
        limit == req.top_k * 2
    IN CASE m = "structured" -> structured(req.kind, table, req.filters, limit)
         [] m = "fulltext" -> fulltext(req.kind, table, req.filters, limit,
                                       req.env.rank)
         [] m = "vector" -> IF req.env.qvec = "ok"
                            THEN vector(req.kind, table, req.filters, limit,
                                        req.env.dist)
                            ELSE <<>>

\* method m is run by the engine call req
Ran(m) ==
    /\ m \in (IF req.methods = None THEN Methods ELSE Range(req.methods))
    /\ m = "structured" \/ "x" \in Range(req.query)

\* method m is run by the engine call req and raises
Failed(m) ==
    /\ Ran(m)
    /\ \/ m \in req.env.fail
       \/ req.top_k < 0
       \/ filters_raise(req.filters)
       \/ m = "vector" /\ req.env.qvec = "raise"

(* C12: a method of search() that raises does not abort the call: the call
   returns, the method that raised gives no candidate, and every candidate
   of every method that did not raise is in the merged result with that
   method's score. *)
C12_PartialResults ==
    (pc = "done" /\ req.api = "engine") =>
        LET e == eng[req.kind] IN
        /\ e.called
        /\ \A m \in Methods :
             /\ Failed(m) =>
                  \A k \in DOMAIN e.all_results :
                    m \notin DOMAIN e.all_results[k].scores
             /\ (Ran(m) /\ ~Failed(m)) =>
                  \A j \in DOMAIN BatchOf(m) :
                    \E k \in DOMAIN e.all_results :
                      /\ e.all_results[k].id = BatchOf(m)[j].id
                      /\ m \in DOMAIN e.all_results[k].scores
                      /\ e.all_results[k].scores[m] = BatchOf(m)[j].score

\* the full-text statement failed, and the structured rows are returned
C12_Witness ==
    /\ pc = "done" /\ req.api = "engine"
    /\ Failed("fulltext") /\ Ran("structured") /\ ~Failed("structured")
    /\ eng[req.kind].results # <<>>
    /\ \E k \in DOMAIN eng[req.kind].all_results :
         "structured" \in DOMAIN eng[req.kind].all_results[k].scores

\* the answer o reports an error to the caller: an exception, success =
\* False, or an error field that is set
IsError(o) ==
    \/ "raised" \in DOMAIN o
    \/ "success" \in DOMAIN o /\ ~o.success
    \/ "error" \in DOMAIN Payload(o) /\ Payload(o).error # None

\* the table without its soft-deleted rows
Live(table) == SelectSeq(table, LAMBDA r : r.deleted_at = NoTime)

\* the rows of kind a count with these filters should count
LiveCount(kind, filters) == count(kind, Live(TableOfKind(kind)), filters)

(* C14: a row whose deleted_at is set is invisible to every read: count
   counts as if the row were not in the table, so does every group of
   aggregate, and no search result, of any method, is such a row; for both
   kinds and every filter list. *)
C14_SoftDeletedInvisible ==
    /\ \A k \in Kinds :
         \A j \in DOMAIN eng[k].all_results :
           TableOfKind(k)[eng[k].all_results[j].id].deleted_at = NoTime
    /\ (pc = "done" /\ "raised" \notin DOMAIN out) =>
         /\ req.api \in {"tool", "mcp"} =>
              \A j \in DOMAIN Payload(out).results :
                LET r == Payload(out).results[j]
                    k == IF r.source = "browser_history" THEN "history"
                         ELSE "bookmarks"
                IN TableOfKind(k)[r.id].deleted_at = NoTime
         /\ (req.api = "tool" /\ req.mode = "count") =>
              out.count =
                (IF req.search_history THEN LiveCount("history", req.filters) ELSE 0)
                + (IF req.search_bookmarks THEN LiveCount("bookmarks", req.filters)
                   ELSE 0)
         /\ req.api = "engine.count" =>
              out.count = LiveCount(req.kind, req.filters)
         /\ "aggregates" \in DOMAIN out =>
              LET kind == IF req.api = "engine.aggregate" THEN req.kind
                          ELSE IF req.search_history THEN "history"
                          ELSE "bookmarks"
              IN \A j \in DOMAIN out.aggregates :
                   /\ out.aggregates[j].count >= 1
                   /\ out.aggregates[j].count =
                        group_count(kind, Live(TableOfKind(kind)), req.filters,
                                    out.aggregates[j].group_value)

\* a visit that is embedded, matches everything and is soft-deleted, and a
\* count, an aggregate or a search of history that has answered
C14_Witness ==
    /\ pc = "done"
    /\ \E i \in DOMAIN history :
         /\ history[i].deleted_at # NoTime
         /\ ~IsNull(history[i].embedding)
         /\ history[i].domain = "a.com"
    /\ \E i \in DOMAIN history : history[i].deleted_at = NoTime
    /\ req.api = "tool" /\ req.search_history /\ req.filters = None
    /\ \/ req.mode = "count" /\ out.count >= 1
       \/ "aggregates" \in DOMAIN out /\ out.aggregates # <<>>
       \/ req.mode = "search" /\ req.query = <<"x">> /\ out.results # <<>>

\* the day an instant falls on
DayOf(t) == t \div InstantsPerDay

\* the live rows of kind whose time is known and satisfies the one date
\* clause c, read as the specification reads it: both bounds inclusive,
\* whole days
OnDays(kind, c) ==
    { i \in DOMAIN TableOfKind(kind) :
        LET row == TableOfKind(kind)[i] IN
        /\ row.deleted_at = NoTime
        /\ TimeOf(kind, row) # NoTime
        /\ c.field = "date_before" => DayOf(TimeOf(kind, row)) <= Dates[c.value]
        /\ c.field = "date_after" => DayOf(TimeOf(kind, row)) >= Dates[c.value] }

\* the request has one clause, date_before or date_after a bare date
OneBareDate(filters) ==
    /\ filters # None
    /\ Len(filters) = 1
    /\ filters[1].field \in {"date_before", "date_after"}
    /\ filters[1].value \in DOMAIN Dates

(* C15: the date bounds are inclusive and whole-day: with date_before = D a
   row is read iff its time (last_visit_time of a visit, added_at of a
   bookmark) is on day D or an earlier day, to the last instant of D; with
   date_after = D iff it is on day D or a later day. *)
C15_InclusiveDayBounds ==
    /\ (pc = "done" /\ req.api = "engine.count" /\ OneBareDate(req.filters)) =>
         out.count = Cardinality(OnDays(req.kind, req.filters[1]))
    /\ (pc = "done" /\ req.api = "tool" /\ req.mode = "count"
          /\ OneBareDate(req.filters)) =>
         out.count =
           (IF req.search_history
            THEN Cardinality(OnDays("history", req.filters[1])) ELSE 0)
           + (IF req.search_bookmarks
              THEN Cardinality(OnDays("bookmarks", req.filters[1])) ELSE 0)
    /\ \A k \in Kinds :
         (req.api \in {"tool", "mcp"} /\ eng[k].called
            /\ OneBareDate(req.filters)) =>
           { eng[k].all_results[j].id : j \in DOMAIN eng[k].all_results }
             = OnDays(k, req.filters[1])

\* a visit at the last instant of 2026-02-10 is counted by
\* date_before = "2026-02-10"
C15_Witness ==
    /\ pc = "done" /\ req.api = "engine.count" /\ req.kind = "history"
    /\ OneBareDate(req.filters)
    /\ req.filters[1].field = "date_before"
    /\ req.filters[1].value = "2026-02-10"
    /\ \E i \in DOMAIN history :
         /\ history[i].deleted_at = NoTime
         /\ history[i].last_visit_time = LastInstant(Dates["2026-02-10"])
    /\ out.count >= 1

\* an answer with no results, no aggregates and no error
EmptyNoError(o) ==
    /\ "raised" \notin DOMAIN o
    /\ o.results = <<>>
    /\ "aggregates" \in DOMAIN o => o.aggregates = <<>>
    /\ o.error = None

(* C16: an aggregate request whose group_by is not the field of the kind
   selected (domain for history, folder for bookmarks) is answered with no
   results, no aggregates and no error, by engine.aggregate and by the tool
   in mode "aggregate"; never with search results. *)
C16_InvalidGroupByEmpty ==
    /\ (pc = "done" /\ req.api = "engine.aggregate"
          /\ req.group_by # group_field(req.kind)) => EmptyNoError(out)
    /\ (pc = "done" /\ req.api = "tool" /\ req.mode = "aggregate"
          /\ req.search_history # req.search_bookmarks
          /\ req.group_by # group_field(IF req.search_history THEN "history"
                                        ELSE "bookmarks"))
         => EmptyNoError(out)

\* the sources of the results of the answer o
SourcesOf(o) ==
    IF "results" \in DOMAIN Payload(o)
    THEN { Payload(o).results[j].source : j \in DOMAIN Payload(o).results }
    ELSE {}

(* C17: with search_history set and search_bookmarks not, the bookmark
   engine is never called and every result returned is a browser_history
   one; and the same with the two kinds exchanged. *)
C17_OnlySelectedKind ==
    /\ (req.api \in {"tool", "mcp"}
          /\ req.search_history /\ ~req.search_bookmarks) =>
         /\ ~eng.bookmarks.called
         /\ SourcesOf(out) \subseteq {"browser_history"}
    /\ (req.api \in {"tool", "mcp"}
          /\ req.search_bookmarks /\ ~req.search_history) =>
         /\ ~eng.history.called
         /\ SourcesOf(out) \subseteq {"browser_bookmarks"}

\* a search of history alone has returned visits
C17_Witness ==
    /\ pc = "done" /\ req.api = "tool" /\ req.mode = "search"
    /\ req.search_history /\ ~req.search_bookmarks
    /\ eng.history.called
    /\ SourcesOf(out) = {"browser_history"}

\* cmd_ingest has returned or raised, and req is the run that did
CliReturned == pc = "idle" /\ req.api = "cli"

\* both kinds were asked for, to be written
BothKindsAsked ==
    /\ req.profile_is_dir
    /\ ~req.args.history_only /\ ~req.args.bookmarks_only /\ ~req.args.dry_run

(* C18: in a run of the ingest command that asks for both kinds, a source
   file of one kind that is missing or does not parse stops only that kind:
   the rows of the other kind's readable file are in the store when the
   command is over. *)
C18_FailedReadAbortsOnlyItsKind ==
    (CliReturned /\ BothKindsAsked /\ "raised" \notin DOMAIN out) =>
        /\ (ReadFails(req.bm_file) /\ ~ReadFails(req.hist_file)) =>
             \A j \in DOMAIN req.hist_file.rows :
               \E i \in DOMAIN history :
                 HistoryKey(history[i]) = RawHistoryKey(req.hist_file.rows[j])
        /\ (ReadFails(req.hist_file) /\ ~ReadFails(req.bm_file)) =>
             \A j \in DOMAIN req.bm_file.rows :
               \E i \in DOMAIN bookmarks :
                 BookmarkKey(bookmarks[i]) = RawBookmarkKey(req.bm_file.rows[j])

\* what one batch over table does to each record it selected, for every
\* selection and every answer with as many vectors as texts: a record whose
\* vector is a list of EMBEDDING_DIM components gets it, with the time; a
\* record whose vector is anything else stays unembedded
BatchWritesEachGoodVector(table) ==
    \A bs \in 1..MaxBatchSize :
      \A entries \in SelectBatch(table, bs) :
        \A vectors \in [1..Len(entries) -> VecValues] :
          LET rows == embed_batch(table, entries, ListOf(vectors), clock).rows
          IN \A j \in DOMAIN entries :
               IF vectors[j] = Vec(EMBEDDING_DIM)
               THEN /\ rows[entries[j]].embedding = vectors[j]
                    /\ rows[entries[j]].embedding_computed_at = clock
               ELSE /\ rows[entries[j]].embedding = NoEmbedding
                    /\ rows[entries[j]].embedding_computed_at = NoTime

(* C20: in a backfill batch answered with the right number of vectors, a
   vector that is not a list of EMBEDDING_DIM components leaves only its own
   record unembedded (embedding and embedding_computed_at stay null); every
   other record of the batch whose vector is right is embedded. *)
C20_BadVectorSkipsOnlyItsRecord ==
    /\ BatchWritesEachGoodVector(history)
    /\ BatchWritesEachGoodVector(bookmarks)

\* a batch of two bookmarks was answered with an unusable value and then a
\* good vector: the first is still unembedded, the second is embedded
C20_Witness ==
    /\ last.op = "embed_bookmarks_batch"
    /\ last.resp = "ok"
    /\ Len(last.sel) = 2
    /\ IsNull(bookmarks[last.sel[1]].embedding)
    /\ bookmarks[last.sel[1]].embedding_computed_at = NoTime
    /\ bookmarks[last.sel[2]].embedding = Vec(EMBEDDING_DIM)

\* no two rows of table have the same identity key
UniqueKeys(kind, table) ==
    \A i, j \in DOMAIN table :
      i # j => (IF kind = "history"
                THEN HistoryKey(table[i]) # HistoryKey(table[j])
                ELSE BookmarkKey(table[i]) # BookmarkKey(table[j]))

\* every embedding of table is null or has EMBEDDING_DIM components
DimOk(table) ==
    \A i \in DOMAIN table :
      \/ IsNull(table[i].embedding)
      \/ IsList(table[i].embedding) /\ table[i].embedding.len = EMBEDDING_DIM

(* C19: under every interleaving of two processes that upsert and backfill
   against one store without a lock, the store never holds two rows of one
   identity key, never holds a non-null embedding whose length is not
   EMBEDDING_DIM, and the number of embedded records never goes down. *)
C19_RaceKeepsStoreSound ==
    [][ /\ UniqueKeys("history", history') /\ UniqueKeys("bookmarks", bookmarks')
        /\ DimOk(history') /\ DimOk(bookmarks')
        /\ Cardinality(Embedded(history')) >= Cardinality(Embedded(history))
        /\ Cardinality(Embedded(bookmarks')) >= Cardinality(Embedded(bookmarks))
        /\ Embedded(history) \subseteq Embedded(history')
        /\ Embedded(bookmarks) \subseteq Embedded(bookmarks') ]_vars

\* both processes looked a key up and found nothing; one has committed its
\* row since, embedded, and the other is still to INSERT
C19_Witness ==
    \E p \in Procs :
      /\ tx[p].pc = "looked" /\ tx[p].hits = {}
      /\ \E i \in DOMAIN TableOfKind(only) :
           /\ IndexRejects(only, <<TableOfKind(only)[i]>>,
                           RaceNewRow(only, tx[p].raw[1], clock))
           /\ ~IsNull(TableOfKind(only)[i].embedding)

\* duplicated work: a process is about to embed a committed row that the
\* other process has embedded and committed since it was selected
C19_DuplicateWork ==
    \E p \in Procs :
      /\ tx[p].pc = "selected"
      /\ \E j \in DOMAIN tx[p].sel :
           /\ ~tx[p].sel[j].own
           /\ ~IsNull(TableOfKind(only)[tx[p].sel[j].i].embedding)

\* the request req reads at least one kind with its filters
ReadsWithFilters ==
    \/ req.api \in {"tool", "mcp"}
         /\ (req.search_history \/ req.search_bookmarks)
    \/ req.api = "engine.count"
    \/ req.api = "engine.aggregate" /\ req.group_by = group_field(req.kind)

(* C13: a request with a date_after or date_before value that does not parse
   is answered with an error in every mode (search, count, aggregate), never
   with a normal answer whose error is None.  Stated for the requests that
   read some kind with the filters. *)
C13_MalformedDateReported ==
    (pc = "done" /\ ReadsWithFilters /\ filters_raise(req.filters))
        => IsError(out)

(* C1: search_browser_unified_tool, asked with search_history and
   search_bookmarks both true or both false, calls no engine and raises
   ValueError. *)
C1_ExactlyOneSource ==
    (req.api = "tool" /\ req.search_history = req.search_bookmarks) =>
        /\ ~eng.history.called
        /\ ~eng.bookmarks.called
        /\ pc = "done" => out = [raised |-> "ValueError"]

(* C2: with methods unset the methods an engine runs are the auto-selected
   ones: structured iff there are filters, fulltext and vector iff the
   trimmed query is non-empty, structured alone when neither holds. *)
C2_AutoSelectedMethods ==
    \A k \in Kinds :
      (eng[k].called /\ req.methods = None) =>
          MethodsRun(eng[k]) = AutoSelected(req.query, req.filters)

(* C9: for every record of a front end's final list the score the engine
   fused from its score map (by which it ranked and cut) equals the score
   the front end fuses from the same map (by which it ranks). *)
C9_OneFusionPolicy ==
    (pc = "done" /\ req.mode = "search") =>
        \A i \in DOMAIN Payload(out).results :
          LET r == Payload(out).results[i]
          IN final_score(r.scores) * fused_score(r).tw = fused_score(r).ts

(* C10: the list a front end returns is in non-increasing order of the final
   fused score and holds the top_k best of the surfaced candidates: no
   candidate left out has a higher fused score than a returned record. *)
C10_TopKByFusedScore ==
    (pc = "done" /\ req.mode = "search") =>
        LET res == Payload(out).results
        IN /\ \A i, j \in DOMAIN res :
                i < j => ~FracGreater(fused_score(res[j]), fused_score(res[i]))
           /\ Len(res) = Min(clamp_top_k(req.top_k), Cardinality(Surfaced))
           /\ \A c \in Surfaced \ Range(res) :
                \A r \in Range(res) :
                  ~FracGreater(fused_score(c), fused_score(r))

(* C3: after any sequence of upsert_history / upsert_bookmarks calls, also
   one whose batch holds several raw records with the same key, no two rows
   of a table have the same identity key, and after an upsert that returned
   every raw record of its batch is held by exactly one row. *)
C3_UniqueIdentityKeys ==
    /\ \A i, j \in DOMAIN history :
         i # j => HistoryKey(history[i]) # HistoryKey(history[j])
    /\ \A i, j \in DOMAIN bookmarks :
         i # j => BookmarkKey(bookmarks[i]) # BookmarkKey(bookmarks[j])
    /\ (last.op = "upsert_history" /\ ~last.err) =>
         \A k \in DOMAIN last.batch :
           Cardinality({ i \in DOMAIN history :
                           HistoryKey(history[i]) = RawHistoryKey(last.batch[k]) }) = 1
    /\ (last.op = "upsert_bookmarks" /\ ~last.err) =>
         \A k \in DOMAIN last.batch :
           Cardinality({ i \in DOMAIN bookmarks :
                           BookmarkKey(bookmarks[i]) = RawBookmarkKey(last.batch[k]) }) = 1

\* one batch with two raw records of one key and different titles was
\* upserted and the table holds one row
C3_Witness ==
    /\ last.op = "upsert_bookmarks"
    /\ ~last.err
    /\ Len(last.batch) = 2
    /\ RawBookmarkKey(last.batch[1]) = RawBookmarkKey(last.batch[2])
    /\ last.batch[1].title # last.batch[2].title
    /\ Len(bookmarks) = 1

(* C4: an upsert that repeats the batch of the call before it leaves the
   number of rows, the identity keys and every field of every row other than
   updated_at as the first run left them, and it does not fail. *)
C4_IdempotentIngestion ==
    [][ /\ (last'.op = "upsert_history" /\ last'.repeat) =>
              (~last'.err /\ SameExceptUpdatedAt(history, history'))
        /\ (last'.op = "upsert_bookmarks" /\ last'.repeat) =>
              (~last'.err /\ SameExceptUpdatedAt(bookmarks, bookmarks')) ]_vars

\* a batch of two records was upserted a second time, at a later instant
C4_Witness ==
    /\ last.op = "upsert_history"
    /\ last.repeat
    /\ Len(last.batch) = 2
    /\ \E i \in DOMAIN history : history[i].updated_at # history[i].created_at

(* C5: in every reachable state every record's embedding is null or a
   vector of exactly EMBEDDING_DIM components, whatever the service returns. *)
C5_EmbeddingDim ==
    /\ \A i \in DOMAIN history :
         \/ IsNull(history[i].embedding)
         \/ (IsList(history[i].embedding) /\ history[i].embedding.len = EMBEDDING_DIM)
    /\ \A i \in DOMAIN bookmarks :
         \/ IsNull(bookmarks[i].embedding)
         \/ (IsList(bookmarks[i].embedding) /\ bookmarks[i].embedding.len = EMBEDDING_DIM)

\* a batch of two was answered with one good vector and one unusable value:
\* one record is embedded, the other is not
C5_Witness ==
    /\ last.op = "embed_history_batch"
    /\ last.resp = "ok"
    /\ Len(last.sel) = 2
    /\ ~IsNull(history[last.sel[1]].embedding)
    /\ IsNull(history[last.sel[2]].embedding)

(* C6: the loop of run_embedding_backfill for a kind stops as soon as a
   batch embeds zero new records, so the loop ends under every behaviour of
   the service. *)
C6_LoopStopsWithoutProgress ==
    [][ /\ (pc = "history" /\ Embedded(history') = Embedded(history))
              => pc' # "history"
        /\ (pc = "bookmarks" /\ Embedded(bookmarks') = Embedded(bookmarks))
              => pc' # "bookmarks" ]_vars

(* C7: a batch whose remote call fails (the service raises, returns no
   list, or returns a number of vectors other than the number of texts)
   persists nothing and returns 0. *)
C7_FailedBatchPersistsNothing ==
    [][ (last'.op \in EmbedOps /\ last'.resp \in FailedResp) =>
            /\ history' = history
            /\ bookmarks' = bookmarks
            /\ last'.n = 0 ]_vars

\* a batch was answered with the wrong number of vectors while an embedded
\* record was in the table
C7_Witness ==
    /\ last.op = "embed_history_batch"
    /\ last.resp = "mismatch"
    /\ last.sel # <<>>
    /\ Embedded(history) # {}

(* C8: across backfill batches and every other call the set of embedded
   records never shrinks, a record whose embedding is non-null is never
   selected by a batch, and its embedding and embedding_computed_at are
   never written again. *)
C8_EmbeddedStaysEmbedded ==
    [][ /\ Embedded(history) \subseteq Embedded(history')
        /\ Embedded(bookmarks) \subseteq Embedded(bookmarks')
        /\ \A i \in Embedded(history) :
             /\ history'[i].embedding = history[i].embedding
             /\ history'[i].embedding_computed_at = history[i].embedding_computed_at
        /\ \A i \in Embedded(bookmarks) :
             /\ bookmarks'[i].embedding = bookmarks[i].embedding
             /\ bookmarks'[i].embedding_computed_at = bookmarks[i].embedding_computed_at
        /\ last'.op \in EmbedOps =>
             \A j \in DOMAIN last'.sel :
               IsNull(TableOf(last'.op, history, bookmarks)[last'.sel[j]].embedding) ]_vars

\* a second batch embedded one record while another had been embedded by an
\* earlier batch
C8_Witness ==
    /\ last.op = "embed_bookmarks_batch"
    /\ last.n = 1
    /\ Cardinality(Embedded(bookmarks)) = 2
    /\ \E i, j \in Embedded(bookmarks) :
         bookmarks[i].embedding_computed_at < bookmarks[j].embedding_computed_at

(* C21: each batch function returns exactly the number of records it
   embedded (whose embedding went from null to non-null in the call), and so
   the pair run_embedding_backfill returns counts the records embedded per
   kind. *)
C21_ReturnCountsEmbedded ==
    [][ last'.op \in EmbedOps =>
          last'.n = Cardinality(Embedded(TableOf(last'.op, history', bookmarks'))
                                  \ Embedded(TableOf(last'.op, history, bookmarks))) ]_vars

\* every record of table that is not soft-deleted is embedded
Drained(table) ==
    \A i \in DOMAIN table :
      (table[i].browser = BROWSER /\ table[i].deleted_at = NoTime)
        => ~IsNull(table[i].embedding)

(* C22: with a service that answers every batch with one vector of
   EMBEDDING_DIM components per text, run_embedding_backfill returns only
   when no live record of the kind has a null embedding, for every batch
   size and number of records; a history batch that fails ends the history
   loop and the bookmark loop runs all the same. *)
C22_BackfillDrainsEachKind ==
    [][ /\ (last'.ret # <<>> /\ "history" \in last'.clean) => Drained(history')
        /\ (last'.ret # <<>> /\ "bookmarks" \in last'.clean) => Drained(bookmarks')
        /\ (pc = "history" /\ last'.resp \in FailedResp) => pc' = "bookmarks"
        /\ pc = "bookmarks" => history' = history ]_vars

\* a run has returned in which a history batch failed, leaving a live
\* history record without embedding, and the bookmark loop then embedded
\* two bookmarks in two batches
C22_Witness ==
    /\ last.ret # <<>>
    /\ last.clean = {"bookmarks"}
    /\ ~Drained(history)
    /\ Cardinality(Embedded(bookmarks)) = 2
    /\ \E i, j \in Embedded(bookmarks) :
         bookmarks[i].embedding_computed_at < bookmarks[j].embedding_computed_at

(* C23: the methods_executed list an engine's search() returns holds exactly
   the methods that ran, that is the methods with an entry in the returned
   timing map other than "total", however many candidates a method returned
   and whether or not it failed. *)
C23_MethodsExecutedAreMethodsRun ==
    \A k \in Kinds :
      eng[k].called => Range(eng[k].methods_executed) = MethodsRun(eng[k])

\* the place of a method in the order search() runs the methods
MethodIndex(m) == CASE m = "structured" -> 1 [] m = "fulltext" -> 2 [] OTHER -> 3

\* result r of the engine call req is merged as add_batch merges: its scores
\* are keyed by its methods_used, which are in running order without
\* repetition, and each score is the one the method's batch gave the record
MergedResult(r) ==
    /\ DOMAIN r.scores = Range(r.methods_used)
    /\ \A a, b \in DOMAIN r.methods_used :
         a < b => MethodIndex(r.methods_used[a]) < MethodIndex(r.methods_used[b])
    /\ \A m \in DOMAIN r.scores :
         \E j \in DOMAIN BatchOf(m) :
           /\ BatchOf(m)[j].id = r.id
           /\ BatchOf(m)[j].score = r.scores[m]

(* C24: candidates are merged by record identity: in the result of one
   engine's search() every record id appears at most once, the keys of a
   result's scores are its methods_used, methods_used has no duplicate and
   is in first-seen order (structured, fulltext, vector), and each score is
   the one that method gave that record. *)
C24_MergedByIdentity ==
    (pc = "done" /\ req.api = "engine") =>
        LET e == eng[req.kind] IN
        /\ \A i, j \in DOMAIN e.all_results :
             i # j => e.all_results[i].id # e.all_results[j].id
        /\ \A i, j \in DOMAIN e.results :
             i # j => e.results[i].id # e.results[j].id
        /\ \A i \in DOMAIN e.all_results : MergedResult(e.all_results[i])
        /\ \A i \in DOMAIN e.results : MergedResult(e.results[i])

\* a call returned one record found by the three methods, with two
\* different scores, next to a record found by fewer methods
C24_Witness ==
    /\ pc = "done" /\ req.api = "engine"
    /\ \E i, j \in DOMAIN eng[req.kind].results :
         /\ eng[req.kind].results[i].methods_used = <<"structured", "fulltext", "vector">>
         /\ eng[req.kind].results[i].scores["structured"]
              # eng[req.kind].results[i].scores["vector"]
         /\ Len(eng[req.kind].results[j].methods_used) < 3

UpsertOps == {"upsert_history", "upsert_bookmarks"}

\* row b is row a but for the fields an upsert may write
HistorySameButMutable(a, b) ==
    [b EXCEPT !.title = a.title, !.domain = a.domain,
              !.last_visit_time = a.last_visit_time,
              !.visit_count = a.visit_count, !.updated_at = a.updated_at] = a

BookmarkSameButMutable(a, b) ==
    [b EXCEPT !.title = a.title, !.added_at = a.added_at,
              !.updated_at = a.updated_at] = a

\* the frame of one upsert from table t1 to t2 with raw records batch: old
\* rows keep their place and every field but the mutable ones, rows whose
\* key is not in the batch are untouched, new rows carry the source tag
UpsertFrame(kind, t1, t2, batch) ==
    /\ Len(t2) >= Len(t1)
    /\ \A i \in DOMAIN t1 :
         /\ IF kind = "history" THEN HistorySameButMutable(t1[i], t2[i])
            ELSE BookmarkSameButMutable(t1[i], t2[i])
         /\ (\A j \in DOMAIN batch :
               IF kind = "history" THEN RawHistoryKey(batch[j]) # HistoryKey(t1[i])
               ELSE RawBookmarkKey(batch[j]) # BookmarkKey(t1[i]))
              => t2[i] = t1[i]
    /\ \A i \in DOMAIN t2 \ DOMAIN t1 :
         /\ t2[i].browser = BROWSER
         /\ t2[i].id = i

(* C25: an upsert that hits an existing row changes only that row's mutable
   fields (history: title, domain, last_visit_time, visit_count, updated_at;
   bookmarks: title, added_at, updated_at); id, url, browser, folder,
   created_at, embedding, embedding_computed_at and deleted_at stay, no
   other row changes, and an inserted row carries the ingest source tag. *)
C25_UpsertFrame ==
    [][ last'.op \in UpsertOps =>
          /\ UpsertFrame("history", history, history',
                         IF last'.op = "upsert_history" /\ ~last'.err
                         THEN last'.batch ELSE <<>>)
          /\ UpsertFrame("bookmarks", bookmarks, bookmarks',
                         IF last'.op = "upsert_bookmarks" /\ ~last'.err
                         THEN last'.batch ELSE <<>>) ]_vars

\* an upsert of two raw records has updated an embedded bookmark, later than
\* its creation, and inserted another bookmark
C25_Witness ==
    /\ last.op = "upsert_bookmarks" /\ ~last.err
    /\ Len(last.batch) = 2
    /\ Len(bookmarks) = 2
    /\ ~IsNull(bookmarks[1].embedding)
    /\ bookmarks[1].updated_at > bookmarks[1].embedding_computed_at
    /\ bookmarks[1].title = None
    /\ bookmarks[2].created_at = bookmarks[1].updated_at

\* every candidate of method m is in the merged result of the engine call req
Contributes(m) ==
    \A j \in DOMAIN BatchOf(m) :
      \E k \in DOMAIN eng[req.kind].all_results :
        /\ eng[req.kind].all_results[k].id = BatchOf(m)[j].id
        /\ m \in DOMAIN eng[req.kind].all_results[k].scores

(* C26: when the embedding backend is unavailable for a query (no endpoint,
   a failing call, an empty or all-zero vector), the vector method gives no
   candidate and search() still returns with the candidates of the other
   methods that ran; when the vector method does run, only records with an
   embedding get a "vector" score. *)
C26_VectorDegradesGracefully ==
    (pc = "done" /\ req.api = "engine") =>
        LET e == eng[req.kind] IN
        /\ e.called
        /\ req.env.qvec # "ok" =>
             /\ \A k \in DOMAIN e.all_results :
                  "vector" \notin DOMAIN e.all_results[k].scores
             /\ \A m \in {"structured", "fulltext"} :
                  (Ran(m) /\ ~Failed(m)) => Contributes(m)
        /\ \A k \in DOMAIN e.all_results :
             "vector" \in DOMAIN e.all_results[k].scores =>
                ~IsNull(TableOfKind(req.kind)[e.all_results[k].id].embedding)

\* the vector method was asked for over a store with embedded records, the
\* query could not be embedded, and the call returned what full-text found
C26_Witness ==
    /\ pc = "done" /\ req.api = "engine"
    /\ Ran("vector") /\ req.env.qvec # "ok"
    /\ Embedded(TableOfKind(req.kind)) # {}
    /\ eng[req.kind].results # <<>>
    /\ \E k \in DOMAIN eng[req.kind].results :
         "fulltext" \in DOMAIN eng[req.kind].results[k].scores

\* in table, a record has an embedding exactly when it has the time the
\* embedding was computed
StampedIffEmbedded(table) ==
    \A i \in DOMAIN table :
      IsNull(table[i].embedding) <=> table[i].embedding_computed_at = NoTime

(* C27: in every reachable state of the ingestion and backfill pipeline a
   record's embedding is non-null if and only if its embedding_computed_at
   is non-null: backfill writes the two together and no other operation
   writes either. *)
C27_EmbeddingAndStampTogether ==
    StampedIffEmbedded(history) /\ StampedIffEmbedded(bookmarks)

\* a batch embedded one record and left an older one without embedding, and
\* the embedded record has been updated by a later upsert
C27_Witness ==
    /\ last.op = "upsert_history" /\ ~last.err
    /\ \E i, j \in DOMAIN history :
         /\ ~IsNull(history[i].embedding)
         /\ history[i].embedding_computed_at # NoTime
         /\ history[i].updated_at > history[i].embedding_computed_at
         /\ IsNull(history[j].embedding)
         /\ history[j].embedding_computed_at = NoTime
         /\ history[j].created_at < history[i].embedding_computed_at

\* the filter fields an engine of the kind knows
Vocabulary(kind) ==
    {"date_after", "date_before", IF kind = "history" THEN "domain" ELSE "folder"}

\* the positions of the clauses of filters the engine of the kind passes
\* over: a field outside its vocabulary, or an empty value
Ignored(kind, filters) ==
    IF filters = None THEN {}
    ELSE { k \in DOMAIN filters : \/ filters[k].field \notin Vocabulary(kind)
                                  \/ ~Truthy(filters[k].value) }

\* filters with the clause at position k taken out
Without(filters, k) ==
    SubSeq(filters, 1, k - 1) \o SubSeq(filters, k + 1, Len(filters))

\* what the store and the service answer in the reads
TheEnv(table) == CHOOSE e \in ReadEnvs(table) : TRUE

\* the kind one aggregate request ranges over
AggregateKind ==
    IF req.api = "engine.aggregate" THEN req.kind
    ELSE IF req.search_history THEN "history" ELSE "bookmarks"

\* count() of the request's kinds, kind reading filters f and the other
\* kind reading the request's filters
ToolCount(kind, f) ==
    (IF req.search_history
     THEN count("history", history, IF kind = "history" THEN f ELSE req.filters)
     ELSE 0)
    + (IF req.search_bookmarks
       THEN count("bookmarks", bookmarks,
                  IF kind = "bookmarks" THEN f ELSE req.filters)
       ELSE 0)

(* C28: a filter clause whose field is not in the kind's vocabulary
   ("domain" for bookmarks, "folder" for visits, an unknown name), or whose
   value is empty, is passed over and never rejected: search, count and
   aggregate return exactly what they return with that clause taken out of
   the list. *)
C28_UnknownFiltersIgnored ==
    /\ \A kind \in Kinds :
         (eng[kind].called /\ req.api \in {"tool", "mcp"}) =>
            \A k \in Ignored(kind, req.filters) :
              eng[kind] = search(kind, TableOfKind(kind), req.query, req.methods,
                                 Without(req.filters, k), clamp_top_k(req.top_k),
                                 TheEnv(TableOfKind(kind)))
    /\ (pc = "done" /\ req.api = "engine.count") =>
         \A k \in Ignored(req.kind, req.filters) :
           /\ ("raised" \in DOMAIN out) = filters_raise(Without(req.filters, k))
           /\ "raised" \notin DOMAIN out =>
                out.count = count(req.kind, TableOfKind(req.kind),
                                  Without(req.filters, k))
    /\ (pc = "done" /\ req.api = "tool" /\ req.mode = "count") =>
         \A kind \in Kinds :
           \A k \in Ignored(kind, req.filters) :
             /\ filters_raise(req.filters) = filters_raise(Without(req.filters, k))
             /\ "raised" \notin DOMAIN out =>
                  out.count = ToolCount(kind, Without(req.filters, k))
    /\ (pc = "done" /\ "aggregates" \in DOMAIN out) =>
         \A k \in Ignored(AggregateKind, req.filters) :
           \E order \in GroupOrders(AggregateKind, TableOfKind(AggregateKind),
                                    Without(req.filters, k)) :
             out = aggregate(AggregateKind, TableOfKind(AggregateKind),
                             req.group_by, Without(req.filters, k),
                             IF req.api = "tool"
                             THEN Clamp(1, req.aggregate_top_n, 100)
                             ELSE req.top_n,
                             order)

\* a search of both kinds with a folder clause and a domain clause has
\* answered: each engine applied the clause it knows, which left out some
\* of its live rows, and passed over the other
C28_Witness ==
    /\ pc = "done" /\ req.api = "tool" /\ req.mode = "search"
    /\ req.filters # None /\ Len(req.filters) = 2
    /\ Ignored("history", req.filters) = {1}
    /\ Ignored("bookmarks", req.filters) = {2}
    /\ eng.history.called /\ eng.bookmarks.called
    /\ eng.history.all_results # <<>>
    /\ eng.bookmarks.all_results # <<>>
    /\ Len(eng.history.all_results) < Cardinality(live_rows(history))
    /\ Len(eng.bookmarks.all_results) < Cardinality(live_rows(bookmarks))

\* the soft-deleted rows of table
Deleted(table) == { i \in DOMAIN table : table[i].deleted_at # NoTime }

\* no read of the table of the kind shows a soft-deleted row: the filtered
\* statement, count, the groups of aggregate, a search by the three methods
\* in which every row matches, and the selection of a backfill batch
HiddenFromReads(kind, table) ==
    /\ apply_filters(kind, table, None) \cap Deleted(table) = {}
    /\ count(kind, table, None) = Cardinality(DOMAIN table \ Deleted(table))
    /\ group_rows(kind, table, None) \cap Deleted(table) = {}
    /\ \A r \in Range(search(kind, table, <<"x">>, None, None, MaxTopK,
                             TheEnv(table)).all_results) :
         r.id \notin Deleted(table)
    /\ \A bs \in 1..MaxBatchSize :
         \A entries \in SelectBatch(table, bs) :
           Range(entries) \cap Deleted(table) = {}

\* the step from table t1 to t2 keeps the soft-deleted rows soft-deleted
StaysDeleted(t1, t2) ==
    \A i \in Deleted(t1) :
      i \in DOMAIN t2 /\ t2[i].deleted_at = t1[i].deleted_at

\* the upsert of the one raw record r, whose key is that of soft-deleted
\* row i, succeeded and wrote row i where it is
UpdatedInPlace(kind, t1, t2, r, i) ==
    /\ ~last'.err
    /\ Len(t2) = Len(t1)
    /\ t2[i].title = r.title
    /\ t2[i].updated_at = clock
    /\ \A j \in DOMAIN t1 : j # i => t2[j] = t1[j]

(* C29: re-ingesting a raw record whose identity key is that of a
   soft-deleted row updates that row in place and makes no second row; the
   row's deleted_at stays set, so after any sequence of ingestion runs a
   soft-deleted record stays absent from search, count, aggregate and the
   selection of backfill. *)
C29_ReingestKeepsSoftDeleted ==
    /\ [](/\ UniqueKeys("history", history)
          /\ UniqueKeys("bookmarks", bookmarks)
          /\ HiddenFromReads("history", history)
          /\ HiddenFromReads("bookmarks", bookmarks))
    /\ [][
        /\ StaysDeleted(history, history')
        /\ StaysDeleted(bookmarks, bookmarks')
        /\ (last'.op = "upsert_history" /\ Len(last'.batch) = 1) =>
             \A i \in Deleted(history) :
               HistoryKey(history[i]) = RawHistoryKey(last'.batch[1])
                 => UpdatedInPlace("history", history, history', last'.batch[1], i)
        /\ (last'.op = "upsert_bookmarks" /\ Len(last'.batch) = 1) =>
             \A i \in Deleted(bookmarks) :
               BookmarkKey(bookmarks[i]) = RawBookmarkKey(last'.batch[1])
                 => UpdatedInPlace("bookmarks", bookmarks, bookmarks',
                                   last'.batch[1], i) ]_vars

\* a soft-deleted, embedded visit has been ingested again with another
\* title, next to a live visit
C29_Witness ==
    /\ last.op = "upsert_history" /\ ~last.err
    /\ Len(history) = 2
    /\ \E i \in Deleted(history) :
         /\ \E j \in DOMAIN last.batch :
              RawHistoryKey(last.batch[j]) = HistoryKey(history[i])
         /\ history[i].updated_at >= history[i].deleted_at
         /\ history[i].created_at < history[i].deleted_at
    /\ DOMAIN history \ Deleted(history) # {}

(* C30: one ingest command is a single sequential unit.  The source reads
   write nothing to the store and call no embedding service, and the command
   goes on to the store only when the profile is a directory, every read it
   asked for succeeded and --dry-run is not given; otherwise it returns with
   both tables as they were.  The upserts of both kinds are done, every
   record read being in its table, before the first backfill batch; backfill
   batches change no record but by its embedding, its stamp and the
   updated_at the store sets on every UPDATE, and run only
   between the upserts and the return of the command, which is where the
   session commits and closes.  Backfill is not entered with --skip-embed,
   without an embedding endpoint, or when no record was read. *)
ReadsAllowWrite(r) ==
    /\ r.profile_is_dir
    /\ r.args.history_only \/ ~ReadFails(r.bm_file)
    /\ r.args.bookmarks_only \/ ~ReadFails(r.hist_file)
    /\ ~r.args.dry_run

AllUpserted(r, h, b) ==
    /\ \A j \in DOMAIN r.hist :
         \E i \in DOMAIN h : HistoryKey(h[i]) = HistoryKey(NewHistoryEntry(r.hist[j]))
    /\ \A j \in DOMAIN r.bm :
         \E i \in DOMAIN b : BookmarkKey(b[i]) = BookmarkKey(NewBookmark(r.bm[j]))

OnlyEmbeddingChanged(t1, t2) ==
    /\ Len(t2) = Len(t1)
    /\ \A i \in DOMAIN t1 :
         t1[i] = [t2[i] EXCEPT !.embedding = t1[i].embedding,
                               !.embedding_computed_at = t1[i].embedding_computed_at,
                               !.updated_at = t1[i].updated_at]

C30_IngestIsSequential ==
    [][ /\ pc = "idle" =>
             /\ history' = history /\ bookmarks' = bookmarks
             /\ last'.op \notin EmbedOps
             /\ pc' \in {"idle", "cli_write"}
             /\ (pc' = "cli_write") <=> ReadsAllowWrite(req')
             /\ pc' = "idle" => out' \in {[exit |-> 0], [exit |-> 1]}
        /\ pc = "cli_write" =>
             /\ last'.op \notin EmbedOps
             /\ pc' \in {"idle", "history"}
             /\ out' # Raised("IntegrityError") => AllUpserted(req, history', bookmarks')
             /\ out' = Raised("IntegrityError") =>
                  pc' = "idle" /\ history' = history /\ bookmarks' = bookmarks
             /\ pc' = "history" =>
                  /\ ~req.args.skip_embed
                  /\ req'.endpoint_url
                  /\ req.hist # <<>> \/ req.bm # <<>>
        /\ pc \in {"history", "bookmarks"} =>
             /\ last'.op \in EmbedOps
             /\ pc' \in {"history", "bookmarks", "idle"}
             /\ pc = "bookmarks" => pc' # "history"
             /\ OnlyEmbeddingChanged(history, history')
             /\ OnlyEmbeddingChanged(bookmarks, bookmarks')
             /\ AllUpserted(req, history', bookmarks')
      ]_vars

\* a command has returned that read records of both kinds, upserted them and
\* embedded records of both kinds in its backfill
C30_Witness ==
    /\ CliReturned
    /\ last.ret # <<>>
    /\ req.hist # <<>> /\ req.bm # <<>>
    /\ req.endpoint_url /\ ~req.args.skip_embed
    /\ Embedded(history) # {} /\ Embedded(bookmarks) # {}
    /\ AllUpserted(req, history, bookmarks)

====
